---- MODULE Spec2Model ----
(***************************************************************************)
(* The scheduling store of dispensary_shift_planner (src/database.py): the *)
(* schedules, absences, team_members and weekly_responsibilities tables,   *)
(* the teams, roles, shifts and responsibilities they reference, the       *)
(* operations on them and the connections that run them; and the readers  *)
(* of the store in src/app.py and src/gantt_view.py: the week of a date,   *)
(* the conflict warnings of the dashboard and the bars of the day chart.   *)
(*                                                                         *)
(* Tables that carry a UNIQUE constraint are bags of rows, so that a       *)
(* duplicate row is a state the model can express; the constraint is the   *)
(* explicit check the INSERT / UPDATE statements make.  The surrogate      *)
(* AUTOINCREMENT id of schedules, absences and weekly_responsibilities is  *)
(* only ever used to pick one stored row (WHERE id = ?), which the model   *)
(* does by picking the row itself.                                         *)
(***************************************************************************)
EXTENDS Bags, FiniteSets, Integers, Sequences, TLC

VARIABLES
    teams,                    \* set of rows [id, name]
    roles,                    \* set of rows [id, name, team_id]
    shifts,                   \* set of rows [id, name, start_time, end_time]
    responsibilities,         \* set of rows [id, name, color]
    sqlite_sequence,          \* AUTOINCREMENT high-water marks of teams and roles
    team_members,             \* set of rows [id, name, role_id, team_id, shift_id, active]
    member_seq,               \* AUTOINCREMENT high-water mark of team_members
    absences,                 \* bag of rows [member_id, start_date, end_date]
    schedules,                \* bag of committed rows [date, shift_id, member_id]
    weekly_responsibilities,  \* bag of rows [week_start_date, member_id, responsibility_id]
    conn,                     \* per caller: the connection and locals of its running call
    lock,                     \* the caller holding the database write lock, or NoCaller
    last                      \* the call that completed last, and its outcome

\* the tables the scheduling calls only read
reference_tables == <<teams, roles, shifts, responsibilities, sqlite_sequence>>

vars == <<reference_tables, team_members, member_seq, absences, schedules,
          weekly_responsibilities, conn, lock, last>>

----------------------------------------------------------------------------
(* Bounds of the model *)

MaxAbsences == 1    \* absences stored at a time
MaxRows == 2        \* schedule rows stored at a time (Spec)
MaxOverlap == 2     \* absences stored at a time (SpecDash)

----------------------------------------------------------------------------
(* Calendar.  A Python date is its day number, day 0 being Monday          *)
(* 2024-05-27; a stored date is the ISO string, modelled as the tuple of   *)
(* its zero-padded fields <<year, month, day>>, which SQLite compares as   *)
(* text, field by field from the left.                                     *)

NULL == 0

Days == 0..13

strftime(n) == IF n <= 4 THEN <<2024, 5, 27 + n>> ELSE <<2024, 6, n - 4>>

strptime(s) == IF s[2] = 5 THEN s[3] - 27 ELSE s[3] + 4

weekday(n) == n % 7

StrLE(a, b) ==
    \/ a[1] < b[1]
    \/ a[1] = b[1] /\ a[2] < b[2]
    \/ a[1] = b[1] /\ a[2] = b[2] /\ a[3] <= b[3]

\* Other TEXT values (names, times of day) are the sequences of their
\* characters, a letter being its place in the alphabet and a digit its
\* value; SQLite orders them character by character from the left, a proper
\* prefix before the longer text.
RECURSIVE TextLE(_, _)
TextLE(a, b) ==
    IF a = <<>> THEN TRUE
    ELSE IF b = <<>> THEN FALSE
    ELSE IF Head(a) # Head(b) THEN Head(a) < Head(b)
    ELSE TextLE(Tail(a), Tail(b))

Ann == <<1, 14, 14>>
Bob == <<2, 15, 2>>
Pharmacy == <<16, 8, 1, 18, 13>>
Ward == <<23, 1, 18, 4>>
Pharmacist == <<16, 8, 1, 18, 13, 1, 3, 9, 19, 20>>

----------------------------------------------------------------------------
(* Inputs the callers draw from *)

ShiftIds == {1, 2}                      \* Early, Late of the seeded shifts
RespIds == {1, 2}
MemberIds == {1, 2}                     \* the ids AUTOINCREMENT gives the first two members
MemberNames == <<Bob, Ann>>             \* the name the member with that id is added under
Callers == {1, 2}
NoCaller == NULL
NoDate == <<>>

AddDates == {strftime(4), strftime(7)}                     \* Fri 31 May, Mon 3 Jun
PopRanges == {<<strftime(4), strftime(7)>>,               \* Fri..Mon over a weekend and a month end
              <<strftime(5), strftime(6)>>,               \* Sat..Sun
              <<strftime(7), strftime(7)>>}               \* Mon
WeekRanges == {<<strftime(7), strftime(11)>>,              \* Mon 3 Jun..Fri 7 Jun
               <<strftime(5), strftime(13)>>}              \* Sat 1 Jun..Sun 9 Jun
WeekAbsRanges == {<<strftime(9), strftime(9)>>}            \* Wed 5 Jun
ConcRanges == {<<strftime(4), strftime(7)>>,               \* Fri 31 May..Mon 3 Jun
               <<strftime(7), strftime(8)>>}               \* Mon 3 Jun..Tue 4 Jun
Member(id, shift_id, active) ==
    [id |-> id, name |-> MemberNames[id], role_id |-> NULL, team_id |-> NULL,
     shift_id |-> shift_id, active |-> active]

Rosters == {{Member(1, 1, TRUE), Member(2, 2, TRUE)},
            {Member(1, 1, TRUE), Member(2, 1, FALSE)}}
WeekStarts == {strftime(7)}                                \* Mon 3 Jun
MemberSettings == {<<TRUE, 2>>, <<FALSE, 1>>, <<TRUE, NULL>>}   \* (active, shift_id) of an edit
AbsRanges == {<<strftime(4), strftime(5)>>,               \* Fri..Sat
              <<strftime(7), strftime(7)>>}               \* Mon

Row(d, s, m) == [date |-> d, shift_id |-> s, member_id |-> m]

Single(r) == SetToBag({r})

\* the observable outcome of a completed call: its name, the exception raised
\* ("" when it returned), the count returned and, for the schedule calls, the
\* date arguments and the shift and member id passed; closed tells that the
\* call reached the conn.close() of its connection before it ended
Called(op, d1, d2, id, m, err, n) ==
    [op |-> op, d1 |-> d1, d2 |-> d2, id |-> id, member |-> m, err |-> err, n |-> n,
     closed |-> TRUE]

\* a call ended by an exception of cursor.execute that the function does not
\* catch: the conn.commit() and conn.close() below the statement are skipped
Uncaught(op, d1, d2, id, m, err) ==
    [Called(op, d1, d2, id, m, err, 0) EXCEPT !.closed = FALSE]

\* a caller with no call running: pc is the caller's position, range the
\* arguments of its call, todo the rows the loop has yet to try, pending the
\* rows its open transaction has inserted and not committed
\* call and weekly are the arguments of its set_weekly_responsibility call and
\* the weekly_responsibilities table as its open transaction has it
IdleConn == [pc |-> "idle", range |-> <<NoDate, NoDate>>, members_with_shifts |-> <<>>,
             absence_map |-> <<>>, todo |-> <<>>, pending |-> EmptyBag,
             schedules_created |-> 0, call |-> <<>>, weekly |-> EmptyBag]

----------------------------------------------------------------------------
(* Constraints of the schema *)

\* no UNIQUE constraint on schedules
no_unique_constraint(table, row) == FALSE

\* the constraint declared as UNIQUE(date, member_id)
unique_per_date_and_member(table, row) ==
    \E r \in BagToSet(table) : r.date = row.date /\ r.member_id = row.member_id

\* UNIQUE(date, shift_id, member_id): the row cannot be added to the table
schedules_unique_violation(table, row) == CopiesIn(row, table) > 0

\* no UNIQUE constraint on weekly_responsibilities: ON CONFLICT never applies
no_weekly_constraint(table, w, m) == {}

\* UNIQUE(week_start_date, member_id): the rows the new row conflicts with
weekly_conflicts(table, w, m) ==
    {r \in BagToSet(table) : r.week_start_date = w /\ r.member_id = m}

----------------------------------------------------------------------------
(* Team members and absences *)

\* no UNIQUE constraint on the name column
no_name_constraint(table, name) == FALSE

\* name TEXT UNIQUE NOT NULL: a row of the table holds the name already
name_taken(table, name) == \E row \in table : row.name = name

\* INSERT INTO team_members (name, role_id, team_id, shift_id); active is 1
\* by the column default and the id the next of the AUTOINCREMENT sequence
add_team_member(name, role_id, team_id, shift_id) ==
    LET bad == name_taken(team_members, name)
    IN  /\ member_seq' = IF bad THEN member_seq ELSE member_seq + 1
        /\ team_members' = IF bad THEN team_members
                            ELSE team_members \cup
                                     {[id |-> member_seq + 1, name |-> name,
                                       role_id |-> role_id, team_id |-> team_id,
                                       shift_id |-> shift_id, active |-> TRUE]}
        /\ last' = IF bad THEN Uncaught("add_team_member", NoDate, NoDate, NULL, NULL, "IntegrityError")
                   ELSE Called("add_team_member", NoDate, NoDate, NULL, NULL, "", 0)
    /\ UNCHANGED <<reference_tables, absences, schedules, weekly_responsibilities, conn, lock>>

\* UPDATE team_members SET name, role_id, active, team_id, shift_id WHERE id = ?
update_team_member(member_id, name, role_id, active, team_id, shift_id) ==
    LET bad == name_taken({m \in team_members : m.id # member_id}, name)
                   /\ \E m \in team_members : m.id = member_id
    IN  /\ team_members' =
               IF bad THEN team_members
               ELSE {IF m.id = member_id
                         THEN [id |-> m.id, name |-> name, role_id |-> role_id,
                               team_id |-> team_id, shift_id |-> shift_id,
                               active |-> active]
                         ELSE m : m \in team_members}
        /\ last' = IF bad THEN Uncaught("update_team_member", NoDate, NoDate, NULL, NULL, "IntegrityError")
                   ELSE Called("update_team_member", NoDate, NoDate, NULL, NULL, "", 0)
    /\ UNCHANGED <<reference_tables, member_seq, absences, schedules, weekly_responsibilities, conn, lock>>

\* INSERT INTO teams (name, color, description); the color and the
\* description are shown and never read by the store, and are left out
add_team(name) ==
    LET bad == name_taken(teams, name)
        team_id == sqlite_sequence.teams + 1
    IN  /\ teams' = IF bad THEN teams ELSE teams \cup {[id |-> team_id, name |-> name]}
        /\ sqlite_sequence' = IF bad THEN sqlite_sequence
                               ELSE [sqlite_sequence EXCEPT !.teams = team_id]
        /\ last' = IF bad THEN Uncaught("add_team", NoDate, NoDate, NULL, NULL, "IntegrityError")
                   ELSE Called("add_team", NoDate, NoDate, NULL, NULL, "", 0)
        /\ UNCHANGED <<roles, shifts, responsibilities, team_members, member_seq,
                       absences, schedules, weekly_responsibilities, conn, lock>>

\* the rows in the orders ORDER BY name may leave them in
RECURSIVE by_name(_)
by_name(rows) ==
    IF rows = {} THEN {<<>>}
    ELSE UNION {{<<row>> \o q : q \in by_name(rows \ {row})} :
                   row \in {x \in rows : \A y \in rows : TextLE(x.name, y.name)}}

\* SELECT * FROM teams ORDER BY name: the lists the call may return
get_all_teams == by_name(teams)

\* DELETE FROM teams, with no WHERE clause
delete_all_teams(team_id) ==
    /\ teams' = {}
    /\ last' = Called("delete_team", NoDate, NoDate, team_id, NULL, "", 0)
    /\ UNCHANGED <<roles, shifts, responsibilities, sqlite_sequence, team_members,
                   member_seq, absences, schedules, weekly_responsibilities, conn, lock>>

\* DELETE FROM teams WHERE id = ?, on a connection that enforces no foreign
\* key: the statement raises nothing whatever references the team
delete_team(team_id) ==
    /\ teams' = {t \in teams : t.id # team_id}
    /\ last' = Called("delete_team", NoDate, NoDate, team_id, NULL, "", 0)
    /\ UNCHANGED <<roles, shifts, responsibilities, sqlite_sequence, team_members,
                   member_seq, absences, schedules, weekly_responsibilities, conn, lock>>

\* INSERT INTO roles (name, color, team_id)
add_role(name, team_id) ==
    LET bad == name_taken(roles, name)
        role_id == sqlite_sequence.roles + 1
    IN  /\ roles' = IF bad THEN roles
                     ELSE roles \cup {[id |-> role_id, name |-> name, team_id |-> team_id]}
        /\ sqlite_sequence' = IF bad THEN sqlite_sequence
                               ELSE [sqlite_sequence EXCEPT !.roles = role_id]
        /\ last' = IF bad THEN Uncaught("add_role", NoDate, NoDate, NULL, NULL, "IntegrityError")
                   ELSE Called("add_role", NoDate, NoDate, NULL, NULL, "", 0)
        /\ UNCHANGED <<teams, shifts, responsibilities, team_members, member_seq,
                       absences, schedules, weekly_responsibilities, conn, lock>>

\* DELETE FROM roles WHERE id = ?
delete_role(role_id) ==
    /\ roles' = {r \in roles : r.id # role_id}
    /\ last' = Called("delete_role", NoDate, NoDate, NULL, NULL, "", 0)
    /\ UNCHANGED <<teams, shifts, responsibilities, sqlite_sequence, team_members,
                   member_seq, absences, schedules, weekly_responsibilities, conn, lock>>

\* UPDATE shifts SET name = ?, start_time = ?, end_time = ? WHERE id = ?
update_shift(shift_id, name, start_time, end_time) ==
    LET bad == name_taken({x \in shifts : x.id # shift_id}, name)
                   /\ \E x \in shifts : x.id = shift_id
    IN  /\ shifts' = IF bad THEN shifts
                      ELSE {IF x.id = shift_id
                                THEN [id |-> x.id, name |-> name,
                                      start_time |-> start_time, end_time |-> end_time]
                                ELSE x : x \in shifts}
        /\ last' = IF bad THEN Uncaught("update_shift", NoDate, NoDate, NULL, NULL, "IntegrityError")
                   ELSE Called("update_shift", NoDate, NoDate, NULL, NULL, "", 0)
        /\ UNCHANGED <<teams, roles, responsibilities, sqlite_sequence, team_members,
                       member_seq, absences, schedules, weekly_responsibilities,
                       conn, lock>>

\* UPDATE teams SET name = ?, color = ?, description = ? WHERE id = ?
update_team(team_id, name) ==
    LET bad == name_taken({t \in teams : t.id # team_id}, name)
                   /\ \E t \in teams : t.id = team_id
    IN  /\ teams' = IF bad THEN teams
                     ELSE {IF t.id = team_id THEN [id |-> t.id, name |-> name] ELSE t :
                              t \in teams}
        /\ last' = IF bad THEN Uncaught("update_team", NoDate, NoDate, NULL, NULL, "IntegrityError")
                   ELSE Called("update_team", NoDate, NoDate, NULL, NULL, "", 0)
        /\ UNCHANGED <<roles, shifts, responsibilities, sqlite_sequence, team_members,
                       member_seq, absences, schedules, weekly_responsibilities, conn, lock>>

\* UPDATE roles SET name = ?, color = ?, team_id = ? WHERE id = ?
update_role(role_id, name, team_id) ==
    LET bad == name_taken({r \in roles : r.id # role_id}, name)
                   /\ \E r \in roles : r.id = role_id
    IN  /\ roles' = IF bad THEN roles
                     ELSE {IF r.id = role_id
                               THEN [id |-> r.id, name |-> name, team_id |-> team_id]
                               ELSE r : r \in roles}
        /\ last' = IF bad THEN Uncaught("update_role", NoDate, NoDate, NULL, NULL, "IntegrityError")
                   ELSE Called("update_role", NoDate, NoDate, NULL, NULL, "", 0)
        /\ UNCHANGED <<teams, shifts, responsibilities, sqlite_sequence, team_members,
                       member_seq, absences, schedules, weekly_responsibilities, conn, lock>>

\* INSERT INTO responsibilities (name, color, description)
add_responsibility(name, color) ==
    LET bad == name_taken(responsibilities, name)
        resp_id == sqlite_sequence.responsibilities + 1
    IN  /\ responsibilities' =
               IF bad THEN responsibilities
               ELSE responsibilities \cup {[id |-> resp_id, name |-> name, color |-> color]}
        /\ sqlite_sequence' = IF bad THEN sqlite_sequence
                               ELSE [sqlite_sequence EXCEPT !.responsibilities = resp_id]
        /\ last' = IF bad THEN Uncaught("add_responsibility", NoDate, NoDate, NULL, NULL,
                                        "IntegrityError")
                   ELSE Called("add_responsibility", NoDate, NoDate, NULL, NULL, "", 0)
        /\ UNCHANGED <<teams, roles, shifts, team_members, member_seq, absences, schedules,
                       weekly_responsibilities, conn, lock>>

\* UPDATE responsibilities SET name = ?, color = ?, description = ? WHERE id = ?
update_responsibility(resp_id, name, color) ==
    LET bad == name_taken({r \in responsibilities : r.id # resp_id}, name)
                   /\ \E r \in responsibilities : r.id = resp_id
    IN  /\ responsibilities' =
               IF bad THEN responsibilities
               ELSE {IF r.id = resp_id THEN [id |-> r.id, name |-> name, color |-> color]
                                        ELSE r : r \in responsibilities}
        /\ last' = IF bad THEN Uncaught("update_responsibility", NoDate, NoDate, NULL, NULL,
                                        "IntegrityError")
                   ELSE Called("update_responsibility", NoDate, NoDate, NULL, NULL, "", 0)
        /\ UNCHANGED <<teams, roles, shifts, sqlite_sequence, team_members, member_seq,
                       absences, schedules, weekly_responsibilities, conn, lock>>

delete_team_member(member_id) ==
    /\ team_members' = {m \in team_members : m.id # member_id}
    /\ last' = Called("delete_team_member", NoDate, NoDate, NULL, NULL, "", 0)
    /\ UNCHANGED <<reference_tables, member_seq, absences, schedules, weekly_responsibilities, conn, lock>>

\* the absence takes the member off the shifts it covers
add_absence_unscheduling(member_id, start_date, end_date) ==
    /\ absences' = absences (+) Single([member_id |-> member_id,
                                        start_date |-> start_date, end_date |-> end_date])
    /\ schedules' = [row \in {x \in BagToSet(schedules) :
                                  ~(/\ x.member_id = member_id
                                    /\ StrLE(start_date, x.date)
                                    /\ StrLE(x.date, end_date))} |-> schedules[row]]
    /\ last' = Called("add_absence", NoDate, NoDate, NULL, NULL, "", 0)
    /\ UNCHANGED <<reference_tables, team_members, member_seq, weekly_responsibilities,
                   conn, lock>>

add_absence(member_id, start_date, end_date) ==
    /\ absences' = absences (+) Single([member_id |-> member_id,
                                        start_date |-> start_date, end_date |-> end_date])
    /\ last' = Called("add_absence", NoDate, NoDate, NULL, NULL, "", 0)
    /\ UNCHANGED <<reference_tables, team_members, member_seq, schedules, weekly_responsibilities, conn, lock>>

delete_absence(a) ==
    /\ BagIn(a, absences)
    /\ absences' = absences (-) Single(a)
    /\ last' = Called("delete_absence", NoDate, NoDate, NULL, NULL, "", 0)
    /\ UNCHANGED <<reference_tables, team_members, member_seq, schedules, weekly_responsibilities, conn, lock>>

\* UPDATE absences SET start_date = ?, end_date = ?, reason = ? WHERE id = ?
update_absence(a, start_date, end_date) ==
    /\ BagIn(a, absences)
    /\ absences' = (absences (-) Single(a))
                       (+) Single([a EXCEPT !.start_date = start_date,
                                            !.end_date = end_date])
    /\ last' = Called("update_absence", NoDate, NoDate, NULL, NULL, "", 0)
    /\ UNCHANGED <<reference_tables, team_members, member_seq, schedules,
                   weekly_responsibilities, conn, lock>>

----------------------------------------------------------------------------
(* Schedules *)

\* INSERT OR IGNORE: a conflicting row is dropped and nothing is raised
insert_or_ignore(table, row) ==
    [ok |-> TRUE,
     table |-> IF schedules_unique_violation(table, row) THEN table
               ELSE table (+) Single(row)]

\* INSERT OR REPLACE with the member scheduled once a day: the rows of the
\* member on the date give way to the new row
insert_or_replace(table, row) ==
    LET kept == {r \in BagToSet(table) :
                    ~(r.date = row.date /\ r.member_id = row.member_id)}
    IN  [ok |-> TRUE, table |-> [r \in kept |-> table[r]] (+) Single(row)]

\* INSERT INTO schedules: the table after the statement, or the table
\* unchanged when the statement raises sqlite3.IntegrityError
insert_schedule(table, row) ==
    IF schedules_unique_violation(table, row)
        THEN [ok |-> FALSE, table |-> table]
        ELSE [ok |-> TRUE, table |-> table (+) Single(row)]

add_schedule(date_str, shift_id, member_id) ==
    LET res == insert_schedule(schedules, Row(date_str, shift_id, member_id))
    IN  /\ schedules' = res.table
        /\ last' = Called("add_schedule", date_str, NoDate, shift_id, member_id,
                          IF res.ok THEN "" ELSE "ValueError", 0)
        /\ UNCHANGED <<reference_tables, team_members, member_seq, absences, weekly_responsibilities,
                       conn, lock>>

delete_schedule(row) ==
    /\ BagIn(row, schedules)
    /\ schedules' = schedules (-) Single(row)
    /\ last' = Called("delete_schedule", NoDate, NoDate, NULL, NULL, "", 0)
    /\ UNCHANGED <<reference_tables, team_members, member_seq, absences, weekly_responsibilities, conn, lock>>

\* the UPDATE applied with no constraint to stop it
update_without_constraint(row, new_shift_id) ==
    /\ BagIn(row, schedules)
    /\ schedules' = (schedules (-) Single(row))
                         (+) Single(Row(row.date, new_shift_id, row.member_id))
    /\ last' = Called("update_schedule_shift", NoDate, NoDate, NULL, NULL, "", 0)
    /\ UNCHANGED <<reference_tables, team_members, member_seq, absences, weekly_responsibilities,
                   conn, lock>>

\* cursor.execute("UPDATE schedules SET shift_id = ? WHERE id = ?") on the
\* table: the table after the statement, or the table unchanged when the
\* statement raises sqlite3.IntegrityError
execute_update(table, row, new_shift_id) ==
    LET rest == table (-) Single(row)
        new == Row(row.date, new_shift_id, row.member_id)
    IN  IF schedules_unique_violation(rest, new)
            THEN [ok |-> FALSE, table |-> table]
            ELSE [ok |-> TRUE, table |-> rest (+) Single(new)]

\* UPDATE schedules SET shift_id = ? WHERE id = ?: the statement fails on the
\* UNIQUE constraint when another row already holds the new triple
update_schedule_shift(row, new_shift_id) ==
    LET res == execute_update(schedules, row, new_shift_id)
        bad == ~res.ok
    IN  /\ BagIn(row, schedules)
        /\ schedules' = res.table
        /\ last' = IF bad THEN Uncaught("update_schedule_shift", NoDate, NoDate, NULL, NULL, "IntegrityError")
                   ELSE Called("update_schedule_shift", NoDate, NoDate, NULL, NULL, "", 0)
        /\ UNCHANGED <<reference_tables, team_members, member_seq, absences, weekly_responsibilities,
                       conn, lock>>

\* the SELECT without its active = 1 condition
eligible_ignoring_active(tm) == {m \in tm : m.shift_id # NULL}

\* SELECT id, shift_id FROM team_members WHERE active = 1 AND shift_id IS NOT NULL
eligible(tm) == {m \in tm : m.active /\ m.shift_id # NULL}

\* cursor.fetchall(): the selected rows as a list, in rowid order
RECURSIVE fetchall(_)
fetchall(rows) ==
    IF rows = {} THEN <<>>
    ELSE LET r == CHOOSE x \in rows : \A y \in rows : x.id <= y.id
         IN  <<r>> \o fetchall(rows \ {r})

members_with_shifts(tm) == fetchall(eligible(tm))

\* SELECT member_id, start_date, end_date FROM absences
\* WHERE start_date <= end_date_arg AND end_date >= start_date_arg
absences_overlapping(table, start_date, end_date) ==
    {a \in BagToSet(table) : StrLE(a.start_date, end_date) /\ StrLE(start_date, a.end_date)}

\* member_id -> the dates of the member's selected absences, start..end inclusive
absence_map(rows) ==
    [m \in {a.member_id : a \in rows} |->
        UNION {strptime(a.start_date)..strptime(a.end_date) :
                   a \in {b \in rows : b.member_id = m}}]

\* the absence check left out
never_absent(amap, member_id, current_date) == FALSE

absent(amap, member_id, current_date) ==
    member_id \in DOMAIN amap /\ current_date \in amap[member_id]

\* The two nested loops from current_date to end_dt: the rows whose INSERT is
\* attempted, in the order of the attempts
RECURSIVE attempts(_, _, _, _)
attempts(current_date, end_dt, mws, amap) ==
    IF current_date > end_dt THEN <<>>
    ELSE LET today == [i \in 1..Len(mws) |->
                          Row(strftime(current_date), mws[i].shift_id, mws[i].id)]
             kept == SelectSeq(today, LAMBDA r : ~absent(amap, r.member_id, current_date))
         IN  (IF weekday(current_date) < 5 THEN kept ELSE <<>>)
                 \o attempts(current_date + 1, end_dt, mws, amap)

\* schedules_created += 1 placed after the try block: skipped rows are counted
RECURSIVE insert_all_counting_skips(_, _, _)
insert_all_counting_skips(todo, table, schedules_created) ==
    IF todo = <<>> THEN [table |-> table, schedules_created |-> schedules_created]
    ELSE insert_all_counting_skips(Tail(todo), insert_schedule(table, Head(todo)).table,
                                   schedules_created + 1)

\* The INSERTs of the loop, one after the other: a statement that raises
\* IntegrityError is skipped, one that succeeds is counted
RECURSIVE insert_all(_, _, _)
insert_all(todo, table, schedules_created) ==
    IF todo = <<>> THEN [table |-> table, schedules_created |-> schedules_created]
    ELSE LET res == insert_schedule(table, Head(todo))
         IN  insert_all(Tail(todo), res.table,
                        IF res.ok THEN schedules_created + 1 ELSE schedules_created)

\* One call run to completion with no other caller at work
auto_populate_schedules_for_date_range(start_date, end_date) ==
    LET mws == members_with_shifts(team_members)
        amap == absence_map(absences_overlapping(absences, start_date, end_date))
        todo == attempts(strptime(start_date), strptime(end_date), mws, amap)
        out == insert_all(todo, schedules, 0)
    IN  /\ schedules' = out.table
        /\ last' = Called("auto_populate_schedules_for_date_range", start_date, end_date,
                          NULL, NULL, "", out.schedules_created)
        /\ UNCHANGED <<reference_tables, team_members, member_seq, absences, weekly_responsibilities,
                       conn, lock>>

----------------------------------------------------------------------------
(* auto_populate_schedules_for_date_range statement by statement, for callers *)
(* that run at the same time, each on its own connection.  The database     *)
(* file admits one writer: the first INSERT of a connection opens its       *)
(* transaction and takes the write lock, which it holds until it commits or *)
(* the connection is discarded; the INSERT of another connection waits.     *)

\* no write lock: every connection writes when it likes
no_write_lock(p) == TRUE

\* the connection can take, or holds, the write lock of the database file
may_write(p) == lock \in {NoCaller, p}

\* the table the statements of the connection see: the committed rows and
\* the rows of its own open transaction
visible(p) == schedules (+) conn[p].pending

release(p) == IF lock = p THEN NoCaller ELSE lock

\* conn = get_connection(); cursor = conn.cursor()
populate_call(p, start_date, end_date) ==
    /\ conn[p].pc = "idle"
    /\ conn' = [conn EXCEPT ![p] = [IdleConn EXCEPT !.pc = "members",
                                                     !.range = <<start_date, end_date>>]]
    /\ UNCHANGED <<reference_tables, team_members, member_seq, absences, schedules,
                   weekly_responsibilities, lock, last>>

populate_read_members(p) ==
    /\ conn[p].pc = "members"
    /\ conn' = [conn EXCEPT ![p].pc = "absences",
                            ![p].members_with_shifts = members_with_shifts(team_members)]
    /\ UNCHANGED <<reference_tables, team_members, member_seq, absences, schedules,
                   weekly_responsibilities, lock, last>>

populate_read_absences(p) ==
    LET c == conn[p]
        amap == absence_map(absences_overlapping(absences, c.range[1], c.range[2]))
    IN  /\ c.pc = "absences"
        /\ conn' = [conn EXCEPT ![p].pc = "loop",
                                ![p].absence_map = amap,
                                ![p].todo = attempts(strptime(c.range[1]), strptime(c.range[2]),
                                                     c.members_with_shifts, amap)]
        /\ UNCHANGED <<reference_tables, team_members, member_seq, absences, schedules,
                       weekly_responsibilities, lock, last>>

\* every INSERT committed on its own (a connection in autocommit mode)
populate_insert_autocommit(p) ==
    LET c == conn[p]
        res == insert_schedule(schedules, Head(c.todo))
    IN  /\ c.pc = "loop" /\ c.todo # <<>>
        /\ may_write(p)
        /\ schedules' = res.table
        /\ conn' = [conn EXCEPT ![p].todo = Tail(c.todo),
                                ![p].schedules_created =
                                    IF res.ok THEN c.schedules_created + 1
                                    ELSE c.schedules_created]
        /\ UNCHANGED <<reference_tables, team_members, member_seq, absences, weekly_responsibilities,
                       lock, last>>

\* one pass of the try block: the INSERT, counted unless it raised IntegrityError
populate_insert(p) ==
    LET c == conn[p]
        res == insert_schedule(visible(p), Head(c.todo))
    IN  /\ c.pc = "loop" /\ c.todo # <<>>
        /\ may_write(p)
        /\ lock' = p
        /\ conn' = [conn EXCEPT ![p].todo = Tail(c.todo),
                                ![p].pending = IF res.ok THEN c.pending (+) Single(Head(c.todo))
                                               ELSE c.pending,
                                ![p].schedules_created =
                                    IF res.ok THEN c.schedules_created + 1
                                    ELSE c.schedules_created]
        /\ UNCHANGED <<reference_tables, team_members, member_seq, absences, schedules,
                       weekly_responsibilities, last>>

\* the INSERT raises an error that is no IntegrityError (the wait for the
\* write lock timed out, the disk failed): nothing catches it, the call ends
\* without conn.commit() and the discarded connection rolls its transaction back
populate_raise(p) ==
    /\ conn[p].pc = "loop" /\ conn[p].todo # <<>>
    /\ conn' = [conn EXCEPT ![p].pc = "raised", ![p].pending = EmptyBag]
    /\ lock' = release(p)
    /\ UNCHANGED <<reference_tables, team_members, member_seq, absences, schedules,
                   weekly_responsibilities, last>>

\* conn.commit(); conn.close(); return schedules_created
populate_commit(p) ==
    /\ conn[p].pc = "loop" /\ conn[p].todo = <<>>
    /\ schedules' = schedules (+) conn[p].pending
    /\ conn' = [conn EXCEPT ![p].pc = "returned", ![p].pending = EmptyBag]
    /\ lock' = release(p)
    /\ UNCHANGED <<reference_tables, team_members, member_seq, absences, weekly_responsibilities, last>>

----------------------------------------------------------------------------
(* Weekly responsibilities.  set_weekly_responsibility is one INSERT ... ON  *)
(* CONFLICT DO UPDATE statement and a commit, on a connection of its own.    *)

WRow(w, m, r) == [week_start_date |-> w, member_id |-> m, responsibility_id |-> r]

\* INSERT INTO weekly_responsibilities ... ON CONFLICT(week_start_date, member_id)
\* DO UPDATE SET responsibility_id = EXCLUDED.responsibility_id
upsert(table, w, m, r) ==
    LET hit == weekly_conflicts(table, w, m)
    IN  IF hit = {} THEN table (+) Single(WRow(w, m, r))
        ELSE BagOfAll(LAMBDA row : IF row \in hit THEN WRow(w, m, r) ELSE row, table)

\* SELECT wr.* FROM weekly_responsibilities wr JOIN team_members tm
\* ON wr.member_id = tm.id ... WHERE wr.week_start_date = ?
weekly_join(members, table, w) ==
    {row \in BagToSet(table) :
        row.week_start_date = w /\ \E m \in members : m.id = row.member_id}

get_weekly_responsibilities(w) == weekly_join(team_members, weekly_responsibilities, w)

\* conn = get_connection(); cursor = conn.cursor()
weekly_call(p, w, m, r) ==
    /\ conn[p].pc = "idle"
    /\ conn' = [conn EXCEPT ![p] = [IdleConn EXCEPT !.pc = "called", !.call = <<w, m, r>>]]
    /\ UNCHANGED <<reference_tables, team_members, member_seq, absences, schedules,
                   weekly_responsibilities, lock, last>>

\* cursor.execute(...): the statement, in a transaction it opens
weekly_execute(p) ==
    LET c == conn[p]
    IN  /\ c.pc = "called"
        /\ may_write(p)
        /\ lock' = p
        /\ conn' = [conn EXCEPT ![p].pc = "upsert",
                                ![p].weekly = upsert(weekly_responsibilities,
                                                     c.call[1], c.call[2], c.call[3])]
        /\ UNCHANGED <<reference_tables, team_members, member_seq, absences, schedules,
                       weekly_responsibilities, last>>

\* conn.commit(); conn.close()
weekly_commit(p) ==
    /\ conn[p].pc = "upsert"
    /\ weekly_responsibilities' = conn[p].weekly
    /\ conn' = [conn EXCEPT ![p] = IdleConn]
    /\ lock' = release(p)
    /\ last' = Called("set_weekly_responsibility", NoDate, NoDate, NULL, NULL, "", 0)
    /\ UNCHANGED <<reference_tables, team_members, member_seq, absences, schedules>>

\* One call run to completion with no other caller at work
set_weekly_responsibility(week_start_date, member_id, responsibility_id) ==
    /\ weekly_responsibilities' =
           upsert(weekly_responsibilities, week_start_date, member_id, responsibility_id)
    /\ last' = Called("set_weekly_responsibility", week_start_date, NoDate,
                      responsibility_id, member_id, "", 0)
    /\ UNCHANGED <<reference_tables, team_members, member_seq, absences, schedules,
                   conn, lock>>

----------------------------------------------------------------------------
(* get_schedules_for_date_range: the schedules of a range, each joined with *)
(* its member, its shift and the responsibility of the member for the week  *)
(* of its date.                                                             *)

\* SQLite's day of the week, 0 = Sunday
sqlite_weekday(n) == (n + 1) % 7

\* date(d, 'weekday 1', '-7 days'): d moved forward to the first Monday that
\* is not before it, then a week back
week_start_from_next_monday(date_str) ==
    LET n == strptime(date_str)
        monday == n + ((8 - sqlite_weekday(n)) % 7)
    IN  strftime(monday - 7)

\* date(d, 'weekday 0', '-6 days'): d moved forward to the first Sunday that
\* is not before it, then six days back
week_start(date_str) ==
    LET n == strptime(date_str)
        sunday == n + ((7 - sqlite_weekday(n)) % 7)
    IN  strftime(sunday - 6)

\* x LEFT JOIN table ON <on>: the rows that match, each as <<row>>, or the
\* one all-NULL row <<>> when none does
left_join(matches) == IF matches = {} THEN {<<>>} ELSE {<<row>> : row \in matches}

\* the value of a column of a LEFT JOINed row
column(joined, name) == IF joined = <<>> THEN NULL ELSE joined[1][name]

\* NULL in a TEXT column, None in Python: no text holds the character 0
None == <<NULL>>

text_column(joined, name) == IF joined = <<>> THEN None ELSE joined[1][name]

\* LEFT JOIN weekly_responsibilities wr ON tm.id = wr.member_id
weekly_of_any_week(s, tm) ==
    left_join({x \in BagToSet(weekly_responsibilities) : tm.id = x.member_id})

\* LEFT JOIN weekly_responsibilities wr ON tm.id = wr.member_id
\*     AND wr.week_start_date = date(s.date, 'weekday 0', '-6 days')
weekly_of(s, tm) ==
    left_join({x \in BagToSet(weekly_responsibilities) :
                  tm.id = x.member_id /\ x.week_start_date = week_start(s.date)})

\* LEFT JOIN responsibilities resp ON wr.responsibility_id = resp.id
responsibility_of(wr) ==
    left_join({x \in responsibilities : x.id = column(wr, "responsibility_id")})

\* FROM schedules s JOIN team_members tm ON s.member_id = tm.id
\* LEFT JOIN roles r ON tm.role_id = r.id JOIN shifts sh ON s.shift_id = sh.id
\* LEFT JOIN wr LEFT JOIN resp WHERE s.date BETWEEN ? AND ?:
\* the joined rows <<s, tm, r, sh, wr, resp>>
schedules_joined(start_date, end_date) ==
    LET from_s == {x \in BagToSet(schedules) :
                      StrLE(start_date, x.date) /\ StrLE(x.date, end_date)}
        join_tm == {<<s, tm>> \in from_s \X team_members : s.member_id = tm.id}
        join_r == UNION {{j \o <<r>> : r \in left_join({x \in roles : j[2].role_id = x.id})} :
                         j \in join_tm}
        join_sh == {j \o <<sh>> : j \in join_r, sh \in shifts}
        on_sh == {j \in join_sh : j[1].shift_id = j[4].id}
        join_wr == UNION {{j \o <<wr>> : wr \in weekly_of(j[1], j[2])} : j \in on_sh}
    IN  UNION {{j \o <<resp>> : resp \in responsibility_of(j[5])} : j \in join_wr}

\* the number of times the joined row is in the result of the FROM clause
times(j) ==
    CopiesIn(j[1], schedules)
        * (IF j[5] = <<>> THEN 1 ELSE CopiesIn(j[5][1], weekly_responsibilities))

\* SELECT s.*, tm.name as member_name, r.name as role_name, sh.name as
\* shift_name, sh.start_time, sh.end_time, resp.name as responsibility_name,
\* resp.color as responsibility_color; dict(row) has every column as a key
ScheduleView(j) ==
    [date |-> j[1].date, shift_id |-> j[1].shift_id, member_id |-> j[1].member_id,
     member_name |-> j[2].name, role_name |-> text_column(j[3], "name"),
     shift_name |-> j[4].name, start_time |-> j[4].start_time,
     end_time |-> j[4].end_time,
     responsibility_name |-> text_column(j[6], "name"),
     responsibility_color |-> text_column(j[6], "color")]

\* ORDER BY s.date, tm.name
by_date_and_name(a, b) ==
    \/ a[1].date # b[1].date /\ StrLE(a[1].date, b[1].date)
    \/ a[1].date = b[1].date /\ TextLE(a[2].name, b[2].name)

\* ORDER BY s.date, sh.start_time, tm.name: row a may come before row b
order_by(a, b) ==
    \/ a[1].date # b[1].date /\ StrLE(a[1].date, b[1].date)
    \/ /\ a[1].date = b[1].date
       /\ a[4].start_time # b[4].start_time
       /\ TextLE(a[4].start_time, b[4].start_time)
    \/ /\ a[1].date = b[1].date
       /\ a[4].start_time = b[4].start_time
       /\ TextLE(a[2].name, b[2].name)

\* the orders the sort may leave the rows of the bag in: rows with equal
\* keys come in any order
RECURSIVE sorted(_)
sorted(rows) ==
    IF BagToSet(rows) = {} THEN {<<>>}
    ELSE UNION {{<<j>> \o q : q \in sorted(rows (-) Single(j))} :
                   j \in {x \in BagToSet(rows) :
                              \A y \in BagToSet(rows) : order_by(x, y)}}

\* the lists the call may return
get_schedules_for_date_range(start_date, end_date) ==
    LET joined == schedules_joined(start_date, end_date)
        rows == [j \in joined |-> times(j)]
    IN  {[i \in 1..Len(q) |-> ScheduleView(q[i])] : q \in sorted(rows)}

----------------------------------------------------------------------------
(* create_daily_gantt (src/gantt_view.py): the bar drawn for a schedule *)

Unassigned == <<21, 14, 1, 19, 19, 9, 7, 14, 5, 4>>
Grey == <<8, 0, 8, 0, 8, 0>>                               \* '#808080'

\* dict.get(key, default): the default only when the dict has no such key
get(dict, key, default) == IF key \in DOMAIN dict THEN dict[key] ELSE default

gantt_data(schedule) ==
    [Member |-> schedule["member_name"],
     Shift |-> schedule["shift_name"],
     Responsibility |-> get(schedule, "responsibility_name", Unassigned),
     Color |-> get(schedule, "responsibility_color", Grey)]

----------------------------------------------------------------------------
(* show_dashboard (src/app.py): the week of a reference date, its schedules *)
(* and absences, and the warnings for members scheduled while absent        *)

\* the week taken to start on the Sunday on or before the date
get_week_dates_from_sunday(reference_date) ==
    LET sunday == reference_date - sqlite_weekday(reference_date)
    IN  [i \in 1..5 |-> sunday + i]

\* the seven days of the week of the date
get_week_dates_to_sunday(reference_date) ==
    LET monday == reference_date - weekday(reference_date)
    IN  [i \in 1..7 |-> monday + (i - 1)]

\* Monday to Friday of the week of the date; date.weekday() is 0 on a Monday
get_week_dates(reference_date) ==
    LET days_since_monday == weekday(reference_date)
        monday == reference_date - days_since_monday
    IN  [i \in 1..5 |-> monday + (i - 1)]

\* the rows in the orders ORDER BY a.start_date may leave them in
RECURSIVE by_start_date(_)
by_start_date(rows) ==
    IF rows = EmptyBag THEN {<<>>}
    ELSE UNION {{<<a>> \o q : q \in by_start_date(rows (-) Single(a))} :
                   a \in {x \in BagToSet(rows) :
                             \A y \in BagToSet(rows) : StrLE(x.start_date, y.start_date)}}

\* SELECT a.*, tm.name as member_name FROM absences a JOIN team_members tm
\* ON a.member_id = tm.id WHERE a.start_date <= ? AND a.end_date >= ?
\* ORDER BY a.start_date: the lists the call may return
get_absences_for_date_range(start_date, end_date) ==
    LET joined == {a \in absences_overlapping(absences, start_date, end_date) :
                      \E tm \in team_members : a.member_id = tm.id}
    IN  by_start_date([a \in joined |-> absences[a]])

\* SELECT tm.* FROM team_members tm WHERE tm.team_id = ?
get_team_members(team_id) == {tm \in team_members : tm.team_id = team_id}

\* member_id -> the dates of the loaded absences of the member, each absence
\* expanded from its start to its end
absent_dates(all_absences) ==
    [m \in {a.member_id : a \in all_absences} |->
        UNION {strptime(a.start_date)..strptime(a.end_date) :
                   a \in {b \in all_absences : b.member_id = m}}]

\* f"{schedule['member_name']} on {schedule['date']}"
conflict_string(schedule) == <<schedule.member_name, schedule.date>>

\* a string for every loaded absence that covers the schedule
RECURSIVE conflicts_per_absence(_, _)
conflicts_per_absence(all_schedules, all_absences) ==
    IF all_schedules = <<>> THEN <<>>
    ELSE LET schedule == Head(all_schedules)
             hits == {a \in all_absences :
                         /\ a.member_id = schedule.member_id
                         /\ strptime(schedule.date)
                                \in strptime(a.start_date)..strptime(a.end_date)}
         IN  [i \in 1..Cardinality(hits) |-> conflict_string(schedule)]
                 \o conflicts_per_absence(Tail(all_schedules), all_absences)

\* the conflicts list: one string for every schedule whose member is absent
\* on its date, in the order of the schedules
conflicts(all_schedules, all_absences) ==
    IF all_schedules = <<>> \/ all_absences = {} THEN <<>>
    ELSE LET dates == absent_dates(all_absences)
             hit == SelectSeq(all_schedules,
                              LAMBDA schedule :
                                  /\ schedule.member_id \in DOMAIN dates
                                  /\ strptime(schedule.date) \in dates[schedule.member_id])
         IN  [i \in 1..Len(hit) |-> conflict_string(hit[i])]

\* the schedules and absences the page loads for the week, those of the
\* members of the selected team when one is selected
loaded_schedules(listed, selected_team_id) ==
    IF selected_team_id = NULL THEN listed
    ELSE SelectSeq(listed, LAMBDA v : \E tm \in get_team_members(selected_team_id) :
                                          v.member_id = tm.id)

loaded_absences(week_start_str, week_end, selected_team_id) ==
    LET all_absences == UNION {{q[i] : i \in DOMAIN q} :
                                  q \in get_absences_for_date_range(week_start_str, week_end)}
    IN  IF selected_team_id = NULL THEN all_absences
        ELSE {a \in all_absences :
                 \E tm \in get_team_members(selected_team_id) : a.member_id = tm.id}

\* one rendering of the page: last.d1 is the reference date, last.d2 the
\* first of its week dates and last.n the number of conflicts warned of
show_dashboard(reference_date, selected_team_id) ==
    LET week_dates == get_week_dates(reference_date)
        week_start_str == strftime(week_dates[1])
        week_end == strftime(week_dates[5])
    IN  \E listed \in get_schedules_for_date_range(week_start_str, week_end) :
            /\ last' = Called("show_dashboard", strftime(reference_date), week_start_str,
                              selected_team_id, NULL, "",
                              Len(conflicts(loaded_schedules(listed, selected_team_id),
                                            loaded_absences(week_start_str, week_end,
                                                            selected_team_id))))
            /\ UNCHANGED <<reference_tables, team_members, member_seq, absences,
                           schedules, weekly_responsibilities, conn, lock>>

----------------------------------------------------------------------------
(* The store used by one caller at a time *)

\* shifts_data of init_db: the shifts INSERT OR IGNORE leaves in a new database
shifts_data ==
    {[id |-> 1, name |-> <<5, 1, 18, 12, 25>>,                 \* Early 07:00-15:00
      start_time |-> <<0, 7, 0, 0>>, end_time |-> <<1, 5, 0, 0>>],
     [id |-> 2, name |-> <<12, 1, 20, 5>>,                     \* Late 14:00-22:00
      start_time |-> <<1, 4, 0, 0>>, end_time |-> <<2, 2, 0, 0>>],
     [id |-> 3, name |-> <<4, 1, 25>>,                         \* Day 07:00-17:00
      start_time |-> <<0, 7, 0, 0>>, end_time |-> <<1, 7, 0, 0>>],
     [id |-> 4, name |-> <<4, 1, 25, 2>>,                      \* day_2 09:00-17:00
      start_time |-> <<0, 9, 0, 0>>, end_time |-> <<1, 7, 0, 0>>]}

\* the tables of a new database after init_db
init_db ==
    /\ teams = {}
    /\ roles = {}
    /\ shifts = shifts_data
    /\ responsibilities = {}
    /\ sqlite_sequence = [teams |-> 0, roles |-> 0, responsibilities |-> 0, shifts |-> 4]

\* INSERT OR REPLACE INTO shifts: the row holding the name is deleted and the
\* seeded row is inserted in its place
insert_or_replace_shift(db, shift) ==
    LET shift_id == db.seq + 1
    IN  [table |-> {x \in db.table : x.name # shift.name}
                       \cup {[id |-> shift_id, name |-> shift.name,
                              start_time |-> shift.start_time,
                              end_time |-> shift.end_time]},
         seq |-> shift_id]

\* INSERT OR IGNORE INTO shifts (name, start_time, end_time): nothing is done
\* when a row holds the name, else the row is inserted under the next id of
\* the AUTOINCREMENT sequence; db is the table and the sequence
insert_or_ignore_shift(db, shift) ==
    LET shift_id == db.seq + 1
    IN  IF name_taken(db.table, shift.name) THEN db
        ELSE [table |-> db.table \cup {[id |-> shift_id, name |-> shift.name,
                                        start_time |-> shift.start_time,
                                        end_time |-> shift.end_time]},
              seq |-> shift_id]

\* for shift_name, start, end in shifts_data: the statements one after the other
RECURSIVE seed_shifts(_, _)
seed_shifts(todo, db) ==
    IF todo = <<>> THEN db
    ELSE seed_shifts(Tail(todo), insert_or_ignore_shift(db, Head(todo)))

\* init_db on a database that exists already: every CREATE TABLE IF NOT
\* EXISTS finds its table, both ALTER TABLE raise the OperationalError that
\* is caught, and the default shifts are inserted where their names are free
init_db_again ==
    LET db == seed_shifts(fetchall(shifts_data),
                          [table |-> shifts, seq |-> sqlite_sequence.shifts])
    IN  /\ shifts' = db.table
        /\ sqlite_sequence' = [sqlite_sequence EXCEPT !.shifts = db.seq]
        /\ last' = Called("init_db", NoDate, NoDate, NULL, NULL, "", 0)
        /\ UNCHANGED <<teams, roles, responsibilities, team_members, member_seq,
                       absences, schedules, weekly_responsibilities, conn, lock>>

Init ==
    /\ init_db
    /\ team_members = {}
    /\ member_seq = 0
    /\ absences = EmptyBag
    /\ schedules = EmptyBag
    /\ weekly_responsibilities = EmptyBag
    /\ conn = [p \in Callers |-> IdleConn]
    /\ lock = NoCaller
    /\ last = Called("init_db", NoDate, NoDate, NULL, NULL, "", 0)

Next ==
    \/ member_seq + 1 \in MemberIds
           /\ add_team_member(MemberNames[member_seq + 1], NULL, NULL, 1)
    \/ \E m \in team_members, e \in MemberSettings :
           update_team_member(m.id, m.name, m.role_id, e[1], m.team_id, e[2])
    \/ \E m \in 1..member_seq, r \in AbsRanges :
           BagCardinality(absences) < MaxAbsences /\ add_absence(m, r[1], r[2])
    \/ \E a \in BagToSet(absences) : delete_absence(a)
    \/ \E d \in AddDates, s \in ShiftIds, m \in 1..member_seq :
           add_schedule(d, s, m) /\ BagCardinality(schedules') <= MaxRows
    \/ \E row \in BagToSet(schedules) : delete_schedule(row)
    \/ \E row \in BagToSet(schedules), s \in ShiftIds : update_schedule_shift(row, s)
    \/ \E r \in PopRanges :
           auto_populate_schedules_for_date_range(r[1], r[2])
               /\ BagCardinality(schedules') <= MaxRows

Spec == Init /\ [][Next]_vars

----------------------------------------------------------------------------
(* A roster being set up and whole weeks being populated from it *)

NextWeek ==
    \/ \E s \in {1, NULL} :
           member_seq + 1 \in MemberIds
               /\ add_team_member(MemberNames[member_seq + 1], NULL, NULL, s)
    \/ \E m \in team_members, e \in MemberSettings :
           update_team_member(m.id, m.name, m.role_id, e[1], m.team_id, e[2])
    \/ \E m \in 1..member_seq, r \in WeekAbsRanges :
           BagCardinality(absences) < MaxAbsences /\ add_absence(m, r[1], r[2])
    \/ \E a \in BagToSet(absences) : delete_absence(a)
    \/ \E r \in WeekRanges : auto_populate_schedules_for_date_range(r[1], r[2])

SpecWeek == Init /\ [][NextWeek]_vars

----------------------------------------------------------------------------
(* Two callers populating at the same time, over a roster that was set up *)

InitConc ==
    /\ init_db
    /\ team_members \in Rosters
    /\ member_seq = 2
    /\ absences \in {EmptyBag,
                      Single([member_id |-> 1, start_date |-> strftime(7),
                              end_date |-> strftime(7)])}
    /\ schedules = EmptyBag
    /\ weekly_responsibilities = EmptyBag
    /\ conn = [p \in Callers |-> IdleConn]
    /\ lock = NoCaller
    /\ last = Called("init_db", NoDate, NoDate, NULL, NULL, "", 0)

NextConc ==
    \E p \in Callers :
        \/ \E r \in ConcRanges : populate_call(p, r[1], r[2])
        \/ populate_read_members(p)
        \/ populate_read_absences(p)
        \/ populate_insert(p)
        \/ populate_raise(p)
        \/ populate_commit(p)

SpecConc == InitConc /\ [][NextConc]_vars

----------------------------------------------------------------------------
(* Two editors setting weekly responsibilities while members come and go. *)
(* A statement that writes waits while another connection holds the lock. *)

NextWeekly ==
    \/ member_seq + 1 \in MemberIds /\ lock = NoCaller
           /\ add_team_member(MemberNames[member_seq + 1], NULL, NULL, 1)
    \/ \E m \in team_members : lock = NoCaller /\ delete_team_member(m.id)
    \/ \E p \in Callers :
           \/ \E w \in WeekStarts, m \in team_members, r \in RespIds \cup {NULL} :
                  weekly_call(p, w, m.id, r)
           \/ weekly_execute(p)
           \/ weekly_commit(p)

SpecWeekly == Init /\ [][NextWeekly]_vars

----------------------------------------------------------------------------
(* Schedules being entered and looked at while the responsibilities of two *)
(* weeks are set for the two members of a roster                            *)

Till == <<20, 9, 12, 12>>
Lab == <<12, 1, 2>>
Red == <<15, 15, 0, 0, 0, 0>>                              \* '#FF0000'
Blue == <<0, 0, 0, 0, 15, 15>>                             \* '#0000FF'

Duties == {[id |-> 1, name |-> Till, color |-> Red],
           [id |-> 2, name |-> Lab, color |-> Blue]}

\* the (date, member) of the shifts entered and the (week, member) of the
\* responsibilities set
ViewEntries == {<<strftime(6), 1>>,                        \* Sun 2 Jun
                <<strftime(7), 1>>, <<strftime(7), 2>>}    \* Mon 3 Jun
ViewWeeks == {<<strftime(0), 1>>,                          \* week of Mon 27 May
              <<strftime(7), 1>>, <<strftime(7), 2>>}      \* week of Mon 3 Jun
ViewRanges == {<<strftime(0), strftime(6)>>,               \* Mon 27 May..Sun 2 Jun
               <<strftime(6), strftime(7)>>,               \* Sun 2 Jun..Mon 3 Jun
               <<strftime(7), strftime(13)>>}              \* Mon 3 Jun..Sun 9 Jun

InitView ==
    /\ teams = {}
    /\ roles = {}
    /\ shifts = shifts_data
    /\ responsibilities = Duties
    /\ sqlite_sequence = [teams |-> 0, roles |-> 0, responsibilities |-> 2, shifts |-> 4]
    /\ team_members = {Member(1, 1, TRUE), Member(2, 1, TRUE)}
    /\ member_seq = 2
    /\ absences = EmptyBag
    /\ schedules = EmptyBag
    /\ weekly_responsibilities = EmptyBag
    /\ conn = [p \in Callers |-> IdleConn]
    /\ lock = NoCaller
    /\ last = Called("init_db", NoDate, NoDate, NULL, NULL, "", 0)

NextView ==
    \/ \E e \in ViewEntries : add_schedule(e[1], 1, e[2])
    \/ \E row \in BagToSet(schedules) : delete_schedule(row)
    \/ \E w \in ViewWeeks, r \in RespIds \cup {NULL} :
           set_weekly_responsibility(w[1], w[2], r)

SpecView == InitView /\ [][NextView]_vars

----------------------------------------------------------------------------
(* The dashboard being looked at while shifts and absences are entered *)

DashEntries == {<<strftime(8), 1>>, <<strftime(8), 2>>,    \* Tue 4 Jun
                <<strftime(10), 1>>}                       \* Thu 6 Jun
DashAbsences == {<<1, strftime(7), strftime(9)>>,          \* Mon 3 Jun..Wed 5 Jun
                 <<1, strftime(4), strftime(8)>>,          \* Fri 31 May..Tue 4 Jun
                 <<2, strftime(10), strftime(10)>>}        \* Thu 6 Jun
DashDates == {6, 7, 12, 13}                     \* Sun 2 Jun, Mon 3 Jun, Sat 8 Jun, Sun 9 Jun
DashTeams == {NULL, 1}                                     \* All Teams, or the one team

InitDash ==
    /\ teams = {[id |-> 1, name |-> Pharmacy]}
    /\ roles = {}
    /\ shifts = shifts_data
    /\ responsibilities = {}
    /\ sqlite_sequence = [teams |-> 1, roles |-> 0, responsibilities |-> 0, shifts |-> 4]
    /\ team_members = {[Member(1, 1, TRUE) EXCEPT !.team_id = 1], Member(2, 1, TRUE)}
    /\ member_seq = 2
    /\ absences = EmptyBag
    /\ schedules = EmptyBag
    /\ weekly_responsibilities = EmptyBag
    /\ conn = [p \in Callers |-> IdleConn]
    /\ lock = NoCaller
    /\ last = Called("init_db", NoDate, NoDate, NULL, NULL, "", 0)

NextDash ==
    \/ \E e \in DashEntries : add_schedule(e[1], 1, e[2])
    \/ \E row \in BagToSet(schedules) : delete_schedule(row)
    \/ \E a \in DashAbsences :
           BagCardinality(absences) < MaxOverlap /\ add_absence(a[1], a[2], a[3])
    \/ \E a \in BagToSet(absences) : delete_absence(a)
    \/ \E d \in DashDates, t \in DashTeams : show_dashboard(d, t)

SpecDash == InitDash /\ [][NextDash]_vars

----------------------------------------------------------------------------
(* Shifts being entered and listed while members, roles and shift times are *)
(* edited                                                                   *)

RangeDates == {strftime(4), strftime(7)}                   \* Fri 31 May, Mon 3 Jun
RangeShifts == {2, 3}                                      \* Late 14:00, Day 07:00
RangeRanges == {<<strftime(0), strftime(4)>>,              \* Mon 27 May..Fri 31 May
                <<strftime(4), strftime(7)>>,              \* Fri 31 May..Mon 3 Jun
                <<strftime(7), strftime(7)>>}              \* Mon 3 Jun
LateStarts == {<<0, 6, 0, 0>>, <<1, 4, 0, 0>>}             \* 06:00, 14:00

InitRange ==
    /\ teams = {}
    /\ roles = {[id |-> 1, name |-> Pharmacist, team_id |-> NULL]}
    /\ shifts = shifts_data
    /\ responsibilities = {}
    /\ sqlite_sequence = [teams |-> 0, roles |-> 1, responsibilities |-> 0, shifts |-> 4]
    /\ team_members = {[Member(1, 1, TRUE) EXCEPT !.role_id = 1], Member(2, 1, TRUE)}
    /\ member_seq = 2
    /\ absences = EmptyBag
    /\ schedules = EmptyBag
    /\ weekly_responsibilities = EmptyBag
    /\ conn = [p \in Callers |-> IdleConn]
    /\ lock = NoCaller
    /\ last = Called("init_db", NoDate, NoDate, NULL, NULL, "", 0)

NextRange ==
    \/ \E d \in RangeDates, sh \in RangeShifts, m \in team_members :
           add_schedule(d, sh, m.id) /\ BagCardinality(schedules') <= MaxRows
    \/ \E row \in BagToSet(schedules) : delete_schedule(row)
    \/ \E m \in team_members : delete_team_member(m.id)
    \/ \E r \in roles : delete_role(r.id)
    \/ \E sh \in {x \in shifts : x.id = 2}, t \in LateStarts :
           update_shift(sh.id, sh.name, t, sh.end_time)

SpecRange == InitRange /\ [][NextRange]_vars

----------------------------------------------------------------------------
(* Teams being set up and taken down, with the roles and members in them *)

TeamIds == {1, 2}                       \* the ids AUTOINCREMENT gives the first two teams
TeamNames == {Pharmacy, Ward}

NextTeams ==
    \/ \E name \in TeamNames : sqlite_sequence.teams + 1 \in TeamIds /\ add_team(name)
    \/ \E t \in TeamIds : delete_team(t)
    \/ \E t \in teams \cup {[id |-> NULL]} :
           sqlite_sequence.roles = 0 /\ add_role(Pharmacist, t.id)
    \/ \E r \in roles : delete_role(r.id)
    \/ \E t \in teams \cup {[id |-> NULL]} :
           member_seq + 1 \in MemberIds
               /\ add_team_member(MemberNames[member_seq + 1], NULL, t.id, 1)
    \/ \E m \in team_members : delete_team_member(m.id)

SpecTeams == Init /\ [][NextTeams]_vars

----------------------------------------------------------------------------
(* Vocabulary of the properties *)

Populate == "auto_populate_schedules_for_date_range"

InRange(d, start_date, end_date) == StrLE(start_date, d) /\ StrLE(d, end_date)

\* some absence of the member covers the date, start..end inclusive
Covered(member_id, d) ==
    \E a \in BagToSet(absences) :
        a.member_id = member_id /\ InRange(d, a.start_date, a.end_date)

\* the rows the specification asks a population of start_date..end_date for
ExpectedRows(start_date, end_date) ==
    UNION {{Row(strftime(n), m.shift_id, m.id) :
               m \in {x \in team_members : x.active /\ x.shift_id # NULL
                                               /\ ~Covered(x.id, strftime(n))}} :
           n \in {k \in Days : weekday(k) \in 0..4
                                  /\ InRange(strftime(k), start_date, end_date)}}

Created == BagToSet(schedules' (-) schedules)

----------------------------------------------------------------------------
(* Properties of Spec *)

\* C1: in every reachable state the schedules table holds at most one row
\* for each (date, shift, member) triple.
C1_OneRowPerTriple == \A row \in BagToSet(schedules) : CopiesIn(row, schedules) = 1

\* an update onto a triple that another row already holds has been refused
C1_Witness ==
    /\ last.op = "update_schedule_shift" /\ last.err = "IntegrityError"
    /\ BagCardinality(schedules) = 2

\* C2: add_schedule succeeds and stores the row whenever no row with the
\* exact triple exists, whatever other shift the member holds that date;
\* with the triple already stored it raises ValueError and leaves the one row.
C2_AddSchedule ==
    [][last'.op = "add_schedule" =>
          LET row == Row(last'.d1, last'.id, last'.member)
          IN  IF CopiesIn(row, schedules) = 0
                  THEN last'.err = "" /\ schedules' = schedules (+) Single(row)
                  ELSE /\ last'.err = "ValueError"
                       /\ schedules' = schedules
                       /\ CopiesIn(row, schedules') = 1]_vars

\* the identical triple was refused while the member also holds the other
\* shift on that date
C2_Witness ==
    /\ last.op = "add_schedule" /\ last.err = "ValueError"
    /\ CopiesIn(Row(last.d1, last.id, last.member), schedules) = 1
    /\ \E r \in BagToSet(schedules) :
           r.date = last.d1 /\ r.member_id = last.member /\ r.shift_id # last.id

\* C3: a population called again over the same range, with no call in
\* between, leaves the schedules as the first call left them and returns 0.
C3_PopulateIdempotent ==
    [][(last.op = Populate /\ last'.op = Populate
            /\ last'.d1 = last.d1 /\ last'.d2 = last.d2)
          => (schedules' = schedules /\ last'.n = 0)]_vars

\* a population returned 0 over a range whose rows are all stored
C3_Witness ==
    /\ last.op = Populate /\ last.n = 0
    /\ ExpectedRows(last.d1, last.d2) # {}
    /\ \A row \in ExpectedRows(last.d1, last.d2) : BagIn(row, schedules)

\* C4: every row a population creates is dated Monday to Friday inside the
\* range and on no day covered by an absence of the row's member.
C4_PopulateWeekdaysNotAbsent ==
    [][last'.op = Populate =>
          \A row \in Created :
              /\ weekday(strptime(row.date)) \in 0..4
              /\ InRange(row.date, last'.d1, last'.d2)
              /\ ~Covered(row.member_id, row.date)]_vars

\* a population over Friday..Monday created rows while an active member with
\* a default shift was absent on one of its weekdays
C4_Witness ==
    /\ last.op = Populate /\ last.n > 0
    /\ last.d1 = strftime(4) /\ last.d2 = strftime(7)
    /\ \E m \in team_members :
           /\ m.active /\ m.shift_id # NULL
           /\ Covered(m.id, strftime(4)) \/ Covered(m.id, strftime(7))

\* C5: a population returns the number of rows stored after it that were not
\* stored before it, and raises nothing when an insert meets an existing row.
C5_PopulateCount ==
    [][last'.op = Populate =>
          /\ last'.err = ""
          /\ last'.n = BagCardinality(schedules') - BagCardinality(schedules)
          /\ last'.n = Cardinality(Created)]_vars

\* a population created rows and skipped at least one that was already stored
C5_Witness ==
    /\ last.op = Populate
    /\ last.n > 0
    /\ last.n < Cardinality(ExpectedRows(last.d1, last.d2))

----------------------------------------------------------------------------
(* Properties of SpecWeek *)

\* C6: with no row stored in the range, a population stores exactly one row
\* (d, default shift, m) for every weekday d of the range and every active
\* member m with a default shift who is not absent on d, and returns their
\* number: 5 for one such member over Monday..Friday, 4 when that member is
\* absent on one day of it.
C6_PopulateEmptyRange ==
    [][(/\ last'.op = Populate
        /\ \A row \in BagToSet(schedules) : ~InRange(row.date, last'.d1, last'.d2))
          => LET rows == ExpectedRows(last'.d1, last'.d2)
                 able == {m \in team_members : m.active /\ m.shift_id # NULL}
                 week == last'.d1 = <<2024, 6, 3>> /\ last'.d2 = <<2024, 6, 7>>
             IN  /\ schedules' = schedules (+) SetToBag(rows)
                 /\ last'.n = Cardinality(rows)
                 /\ \A row \in Created :
                        \E m \in able : m.id = row.member_id /\ m.shift_id = row.shift_id
                 /\ (week /\ Cardinality(able) = 1 /\ absences = EmptyBag) => last'.n = 5
                 /\ (week /\ Cardinality(able) = 1
                          /\ \E m \in able :
                                 absences = Single([member_id |-> m.id,
                                                    start_date |-> <<2024, 6, 5>>,
                                                    end_date |-> <<2024, 6, 5>>]))
                        => last'.n = 4]_vars

\* Monday..Friday was populated for the one eligible member, absent on the
\* Wednesday, next to a member who is not eligible: 4 rows
C6_Witness ==
    /\ last.op = Populate /\ last.n = 4
    /\ last.d1 = <<2024, 6, 3>> /\ last.d2 = <<2024, 6, 7>>
    /\ BagCardinality(schedules) = 4
    /\ Cardinality(team_members) = 2
    /\ \E m \in team_members :
           /\ m.active /\ m.shift_id # NULL /\ Covered(m.id, <<2024, 6, 5>>)
           /\ \A row \in BagToSet(schedules) : row.member_id = m.id

----------------------------------------------------------------------------
(* Properties of SpecConc *)

Returned(p) == conn[p].pc = "returned"

\* the rows the call of p is to store, were it alone
Wanted(p) == ExpectedRows(conn[p].range[1], conn[p].range[2])

\* the step is an INSERT of p that met a stored row
Skips(p) ==
    /\ conn[p].pc = "loop" /\ conn[p].todo # <<>>
    /\ conn'[p].todo = Tail(conn[p].todo)
    /\ BagIn(Head(conn[p].todo), visible(p))

\* C7: a population is one transaction.  The committed table changes only
\* in the step in which a call commits and returns, and then by exactly the
\* rows the call counted; a call that fails before its commit leaves the
\* committed table as it was; an insert that meets a stored row leaves the
\* rows the call has inserted so far in its transaction.
C7_PopulateAtomic ==
    [][/\ \A p \in Callers :
              /\ (conn[p].pc = "loop" /\ conn'[p].pc = "returned")
                     => /\ schedules' = schedules (+) conn[p].pending
                        /\ conn'[p].schedules_created = BagCardinality(conn[p].pending)
              /\ (conn[p].pc = "loop" /\ conn'[p].pc = "raised")
                     => /\ schedules' = schedules
                        /\ \A row \in BagToSet(conn[p].pending) : ~BagIn(row, schedules')
              /\ Skips(p)
                     => /\ conn'[p].pending = conn[p].pending
                        /\ conn'[p].pc = "loop"
       /\ schedules' # schedules
              => \E p \in Callers : conn[p].pc = "loop" /\ conn'[p].pc = "returned"]_vars

\* one caller failed after inserts it had counted, the other returned, and
\* the table holds the rows of the other alone
C7_Witness ==
    \E p, q \in Callers :
        /\ conn[p].pc = "raised" /\ conn[p].schedules_created > 0
        /\ Returned(q) /\ conn[q].schedules_created > 0
        /\ BagCardinality(schedules) = conn[q].schedules_created

C8_Final ==
    /\ \A row \in BagToSet(schedules) : CopiesIn(row, schedules) = 1
    /\ (\A p \in Callers : Returned(p))
          => /\ BagToSet(schedules) = Wanted(1) \cup Wanted(2)
             /\ conn[1].schedules_created + conn[2].schedules_created
                    = BagCardinality(schedules)
             /\ \A p, q \in Callers :
                    p # q => /\ conn[p].schedules_created <= Cardinality(Wanted(p))
                             /\ conn[p].schedules_created
                                    >= Cardinality(Wanted(p) \ Wanted(q))

\* C8: two callers populating overlapping ranges at the same time never
\* leave a repeated (date, shift, member) row; once both have returned the
\* table holds the rows of both ranges, the two counts sum to the number of
\* rows stored, every row only one of them wanted is in its count and every
\* contested row in exactly one count; the losing insert raises nothing and
\* is not counted.
C8_ConcurrentPopulate ==
    /\ []C8_Final
    /\ [][\A p \in Callers :
              Skips(p) => /\ conn'[p].pc = "loop"
                          /\ conn'[p].schedules_created = conn[p].schedules_created]_vars

\* both callers returned a count above 0 from ranges sharing rows
C8_Witness ==
    /\ \A p \in Callers : Returned(p) /\ conn[p].schedules_created > 0
    /\ Wanted(1) \cap Wanted(2) # {}
    /\ conn[1].range # conn[2].range

----------------------------------------------------------------------------
(* Properties of SpecWeekly *)

\* the step is the commit of a set_weekly_responsibility(w, m, r) call of p
Sets(p, w, m, r) ==
    conn[p].pc = "upsert" /\ conn'[p].pc = "idle" /\ conn[p].call = <<w, m, r>>

Keys == WeekStarts \X MemberIds

\* C9: after set_weekly_responsibility(weekStart, member, r) the one row of
\* (weekStart, member) holds r, whether or not a row was stored before; with
\* r = None on a stored row the row stays and get_weekly_responsibilities
\* (weekStart) still returns it.
C9_UpsertLastWriteWins ==
    [][\A p \in Callers, k \in Keys, r \in RespIds \cup {NULL} :
          Sets(p, k[1], k[2], r)
              => /\ weekly_conflicts(weekly_responsibilities', k[1], k[2])
                        = {WRow(k[1], k[2], r)}
                 /\ CopiesIn(WRow(k[1], k[2], r), weekly_responsibilities') = 1
                 /\ (r = NULL /\ weekly_conflicts(weekly_responsibilities, k[1], k[2]) # {})
                        => WRow(k[1], k[2], NULL)
                               \in weekly_join(team_members', weekly_responsibilities', k[1])]_vars

\* C10: the table holds at most one row per (week_start_date, member), under
\* any interleaving of set_weekly_responsibility calls, and the row of a pair
\* only ever changes to the value of a call for that pair, in the step that
\* commits the call.
C10_OneRowPerWeekAndMember ==
    /\ [](\A row \in BagToSet(weekly_responsibilities) :
              /\ CopiesIn(row, weekly_responsibilities) = 1
              /\ weekly_conflicts(weekly_responsibilities,
                                  row.week_start_date, row.member_id) = {row})
    /\ [][\A k \in Keys :
              weekly_conflicts(weekly_responsibilities', k[1], k[2])
                      # weekly_conflicts(weekly_responsibilities, k[1], k[2])
                  => \E p \in Callers, r \in RespIds \cup {NULL} :
                         /\ Sets(p, k[1], k[2], r)
                         /\ weekly_conflicts(weekly_responsibilities', k[1], k[2])
                                = {WRow(k[1], k[2], r)}]_vars

\* a pair has its row, one editor's statement has replaced the value in its
\* transaction and the other editor's call for the same pair, with a third
\* value, waits for the lock
C10_Witness ==
    \E p, q \in Callers, k \in Keys :
        /\ conn[p].pc = "upsert" /\ conn[q].pc = "called"
        /\ <<conn[p].call[1], conn[p].call[2]>> = k
        /\ <<conn[q].call[1], conn[q].call[2]>> = k
        /\ conn[p].call[3] # conn[q].call[3]
        /\ \E row \in weekly_conflicts(weekly_responsibilities, k[1], k[2]) :
               row.responsibility_id \notin {conn[p].call[3], conn[q].call[3]}

----------------------------------------------------------------------------
(* Properties of SpecView *)

\* the Monday of the week of the date: the date itself when it is a Monday,
\* otherwise the Monday reached by walking back
RECURSIVE walk_back(_)
walk_back(n) == IF weekday(n) = 0 THEN n ELSE walk_back(n - 1)

mostRecentMonday(d) == strftime(walk_back(strptime(d)))

\* the names of the responsibility the table holds for the week and member
Stored(week, member_id) ==
    {x.name : x \in {y \in responsibilities :
                        \E w \in weekly_conflicts(weekly_responsibilities, week, member_id) :
                            y.id = w.responsibility_id}}

\* the views in the list a call for the range returns, whatever their order
ViewsOf(start_date, end_date) ==
    {ScheduleView(j) : j \in schedules_joined(start_date, end_date)}

\* what the views of a stored row resolve to
Resolution(s) ==
    {<<v.responsibility_name, v.responsibility_color>> :
        v \in {x \in ViewsOf(s.date, s.date) :
                  x.member_id = s.member_id /\ x.shift_id = s.shift_id}}

\* C11: every view get_schedules_for_date_range returns carries the
\* responsibility stored for (Monday of the week of its date, its member);
\* the week start the query computes is that Monday on each of the seven
\* weekdays, the date itself on a Monday and six days back on a Sunday.
C11_ResolvedByWeek ==
    /\ \A n \in Days : week_start(strftime(n)) = mostRecentMonday(strftime(n))
    /\ \A range \in ViewRanges :
           \A q \in get_schedules_for_date_range(range[1], range[2]) :
               \A i \in 1..Len(q) :
                   {q[i].responsibility_name} \ {None}
                       = Stored(mostRecentMonday(q[i].date), q[i].member_id)

\* one member is scheduled on Sunday 2 June and on Monday 3 June, and the
\* call returns the Sunday with the responsibility of the week of 27 May and
\* the Monday with the other responsibility, set for the week of 3 June
C11_Witness ==
    \E q \in get_schedules_for_date_range(strftime(6), strftime(7)) :
        \E i, k \in 1..Len(q) :
            /\ q[i].date = strftime(6) /\ q[i].responsibility_name = Till
            /\ q[k].date = strftime(7) /\ q[k].responsibility_name = Lab
            /\ q[i].member_id = q[k].member_id
            /\ Stored(strftime(0), q[i].member_id) = {Till}
            /\ Stored(strftime(7), q[i].member_id) = {Lab}

\* C12: set_weekly_responsibility(W, M, r) changes what a stored schedule
\* row resolves to only for rows of M dated in W's Monday..Sunday; rows of M
\* in another week and rows of other members resolve as before.
C12_WeeklyFrame ==
    [][last'.op = "set_weekly_responsibility" =>
          \A s \in BagToSet(schedules) :
              Resolution(s)' # Resolution(s)
                  => /\ s.member_id = last'.member
                     /\ strptime(last'.d1) <= strptime(s.date)
                     /\ strptime(s.date) <= strptime(last'.d1) + 6]_vars

\* the week of 3 June was set to Lab for a member whose Sunday 2 June row
\* still resolves to Till, as does the 3 June row of the other member
C12_Witness ==
    /\ last.op = "set_weekly_responsibility"
    /\ last.d1 = strftime(7) /\ last.id = 2
    /\ Resolution(Row(strftime(7), 1, last.member)) = {<<Lab, Blue>>}
    /\ Resolution(Row(strftime(6), 1, last.member)) = {<<Till, Red>>}
    /\ \E m \in team_members :
           m.id # last.member /\ Resolution(Row(strftime(7), 1, m.id)) = {<<Till, Red>>}

\* C13: a schedule row whose (week, member) has no weekly_responsibilities
\* row, or a row with no responsibility, is returned, or drawn, with the
\* responsibility name "Unassigned" and a neutral color.
C13_UnassignedDefault ==
    \A range \in ViewRanges :
        \A v \in ViewsOf(range[1], range[2]) :
            Stored(mostRecentMonday(v.date), v.member_id) = {}
                => \/ v.responsibility_name = Unassigned /\ v.responsibility_color # None
                   \/ /\ gantt_data(v).Responsibility = Unassigned
                      /\ gantt_data(v).Color # None

----------------------------------------------------------------------------
(* Properties of SpecDash *)

Shown == "show_dashboard"

\* C14: on each of the seven weekdays of d, a Monday and a Sunday included,
\* the first of get_week_dates(d) is the week start the store computes for d
\* with date(d, 'weekday 0', '-6 days'), and is the Monday of the week of d;
\* the dashboard of a reference date is that of the week so keyed.
C14_WeekDatesAgree ==
    /\ [](\A d \in Days :
              /\ strftime(get_week_dates(d)[1]) = week_start(strftime(d))
              /\ strftime(get_week_dates(d)[1]) = mostRecentMonday(strftime(d)))
    /\ [][last'.op = Shown => last'.d2 = week_start(last'.d1)]_vars

\* the dashboard was shown for a Sunday: its week starts six days before
C14_Witness ==
    /\ last.op = Shown
    /\ weekday(strptime(last.d1)) = 6
    /\ strptime(last.d2) = strptime(last.d1) - 6
    /\ last.d2 = week_start(last.d1)

\* C26: for every reference date d, a Saturday and a Sunday included,
\* get_week_dates(d) is five consecutive dates, the first a Monday and the
\* last the Friday of the week of d, and holds d when d is one of Monday to
\* Friday; the dashboard of a reference date shows the week so computed.
C26_FiveWeekdays ==
    /\ [](\A d \in Days :
              LET week_dates == get_week_dates(d)
              IN  /\ DOMAIN week_dates = 1..5
                  /\ \A i \in 1..4 : week_dates[i + 1] = week_dates[i] + 1
                  /\ week_dates[1] % 7 = 0
                  /\ week_dates[5] % 7 = 4
                  /\ week_dates[1] <= d /\ d <= week_dates[1] + 6
                  /\ d % 7 <= 4 => \E i \in 1..5 : week_dates[i] = d)
    /\ [][last'.op = Shown =>
              /\ strptime(last'.d2) % 7 = 0
              /\ strptime(last'.d2) <= strptime(last'.d1)
              /\ strptime(last'.d1) <= strptime(last'.d2) + 6]_vars

\* the dashboard was shown for Saturday 8 June: its week starts on Monday 3 June
C26_Witness ==
    /\ last.op = Shown
    /\ last.d1 = <<2024, 6, 8>>
    /\ last.d2 = <<2024, 6, 3>>

\* the schedule views and the absences a rendering for the reference date
\* and team can have loaded
Loaded(d, t) ==
    LET week_dates == get_week_dates(d)
        from == strftime(week_dates[1])
        to == strftime(week_dates[5])
    IN  {<<loaded_schedules(listed, t), loaded_absences(from, to, t)>> :
            listed \in get_schedules_for_date_range(from, to)}

\* some loaded absence of the member of the view covers the date of the view
Flagged(v, all_absences) ==
    \E a \in all_absences :
        a.member_id = v.member_id /\ InRange(v.date, a.start_date, a.end_date)

\* C17: the conflict detector flags a schedule exactly when a loaded absence
\* of its member covers its date, first and last day included, and gives one
\* "<member> on <date>" string for each flagged schedule, in the order of
\* the schedules, however many absences cover it.
C17_ConflictDetector ==
    \A d \in DashDates, t \in DashTeams :
        \A ld \in Loaded(d, t) :
            LET all_schedules == ld[1]
                found == conflicts(all_schedules, ld[2])
                hit == {i \in 1..Len(all_schedules) : Flagged(all_schedules[i], ld[2])}
                nth(k) == CHOOSE i \in hit : Cardinality({j \in hit : j <= i}) = k
            IN  /\ Len(found) = Cardinality(hit)
                /\ \A k \in 1..Len(found) :
                       found[k] = <<all_schedules[nth(k)].member_name,
                                    all_schedules[nth(k)].date>>

\* Bob is absent 3..5 June and 31 May..4 June and scheduled on 4 and on 6
\* June: the one conflict is Bob on 4 June
C17_Witness ==
    /\ BagIn([member_id |-> 1, start_date |-> <<2024, 6, 3>>,
              end_date |-> <<2024, 6, 5>>], absences)
    /\ BagIn([member_id |-> 1, start_date |-> <<2024, 5, 31>>,
              end_date |-> <<2024, 6, 4>>], absences)
    /\ BagIn(Row(<<2024, 6, 4>>, 1, 1), schedules)
    /\ BagIn(Row(<<2024, 6, 6>>, 1, 1), schedules)
    /\ \A ld \in Loaded(7, NULL) :
           conflicts(ld[1], ld[2]) = << <<Bob, <<2024, 6, 4>>>> >>
    /\ last.op = Shown /\ last.n = 1 /\ last.d2 = <<2024, 6, 3>>

\* C18: overlap of schedules and absences blocks and changes nothing.
\* add_absence succeeds and leaves the schedules as they are, also when it
\* covers scheduled dates of the member or overlaps its other absences;
\* add_schedule of a triple not yet stored succeeds, also on a date covered
\* by an absence of the member; showing the dashboard, conflict detection
\* included, leaves every table as it is.
C18_OverlapNeverBlocks ==
    [][/\ last'.op = "add_absence"
              => /\ last'.err = ""
                 /\ schedules' = schedules
                 /\ BagCardinality(absences') = BagCardinality(absences) + 1
                 /\ \A a \in BagToSet(absences) : CopiesIn(a, absences') >= CopiesIn(a, absences)
       /\ (last'.op = "add_schedule"
               /\ CopiesIn(Row(last'.d1, last'.id, last'.member), schedules) = 0)
              => /\ last'.err = ""
                 /\ schedules' = schedules (+) Single(Row(last'.d1, last'.id, last'.member))
                 /\ absences' = absences
       /\ last'.op = Shown
              => UNCHANGED <<reference_tables, team_members, member_seq, absences,
                             schedules, weekly_responsibilities>>]_vars

\* an absence was added that overlaps another absence of the member and
\* covers a date the member is scheduled on, and the shift is still stored
C18_Witness ==
    /\ last.op = "add_absence" /\ last.err = ""
    /\ \E a, b \in BagToSet(absences) :
           /\ a # b /\ a.member_id = b.member_id
           /\ StrLE(a.start_date, b.end_date) /\ StrLE(b.start_date, a.end_date)
           /\ \E row \in BagToSet(schedules) :
                  /\ row.member_id = a.member_id
                  /\ InRange(row.date, a.start_date, a.end_date)
                  /\ InRange(row.date, b.start_date, b.end_date)

----------------------------------------------------------------------------
(* Properties of SpecRange *)

\* the view is one of the stored row
ViewOf(v, row) ==
    v.date = row.date /\ v.shift_id = row.shift_id /\ v.member_id = row.member_id

\* C15: whatever has been added, edited and deleted, the list
\* get_schedules_for_date_range(start, end) returns has one view for every
\* stored schedule row dated start..end, both ends included, and no other.
C15_RangeComplete ==
    \A range \in RangeRanges :
        \A q \in get_schedules_for_date_range(range[1], range[2]) :
            /\ \A row \in BagToSet(schedules) :
                   InRange(row.date, range[1], range[2])
                       => Cardinality({i \in 1..Len(q) : ViewOf(q[i], row)})
                              = CopiesIn(row, schedules)
            /\ \A i \in 1..Len(q) :
                   \E row \in BagToSet(schedules) :
                       ViewOf(q[i], row) /\ InRange(row.date, range[1], range[2])

\* date, then start time, then member name, each as text
KeyLE(a, b) ==
    \/ a.date # b.date /\ StrLE(a.date, b.date)
    \/ a.date = b.date /\ a.start_time # b.start_time
           /\ TextLE(a.start_time, b.start_time)
    \/ a.date = b.date /\ a.start_time = b.start_time
           /\ TextLE(a.member_name, b.member_name)

\* C16: the list get_schedules_for_date_range returns is in ascending order
\* of date, then shift start time, then member name: the key of a view is
\* at most the key of the view after it.
C16_RangeSorted ==
    \A range \in RangeRanges :
        \A q \in get_schedules_for_date_range(range[1], range[2]) :
            \A i \in 1..(Len(q) - 1) : KeyLE(q[i], q[i + 1])

\* Ann's Day shift at 07:00 is listed before Bob's Late shift at 14:00 of
\* the same date, against the order of the shift ids and of the member ids
C16_Witness ==
    \E q \in get_schedules_for_date_range(strftime(4), strftime(7)) :
        /\ Len(q) = 2
        /\ q[1].date = q[2].date
        /\ q[1].shift_id = 3 /\ q[2].shift_id = 2
        /\ q[1].member_name = Ann /\ q[2].member_name = Bob
        /\ q[1].member_id > q[2].member_id
        /\ q[1].start_time = <<0, 7, 0, 0>> /\ q[2].start_time = <<1, 4, 0, 0>>

----------------------------------------------------------------------------
(* Properties of SpecTeams *)

\* a role or a team member references the team
Referenced(team_id) ==
    \/ \E r \in roles : r.team_id = team_id
    \/ \E m \in team_members : m.team_id = team_id

\* C19: delete_team of a team that a role or a team member references
\* fails with an error and leaves the team, the roles and the members
\* stored.
C19_DeleteTeamBlocked ==
    [][(/\ last'.op = "delete_team"
        /\ \E t \in teams : t.id = last'.id
        /\ Referenced(last'.id))
          => /\ last'.err # ""
             /\ teams' = teams
             /\ roles' = roles
             /\ team_members' = team_members]_vars

\* C20: delete_team of a team that no role and no team member references
\* succeeds; get_all_teams then returns every other team as it was, in the
\* order of the names, and no longer the deleted one.
C20_DeleteTeamFree ==
    [][(last'.op = "delete_team" /\ ~Referenced(last'.id))
          => /\ last'.err = ""
             /\ \A q \in get_all_teams' :
                    /\ {q[i] : i \in 1..Len(q)} = {t \in teams : t.id # last'.id}
                    /\ Len(q) = Cardinality({t \in teams : t.id # last'.id})
                    /\ \A i \in 1..(Len(q) - 1) : TextLE(q[i].name, q[i + 1].name)
             /\ roles' = roles
             /\ team_members' = team_members]_vars

\* a team nothing referenced was deleted; the other team is still listed,
\* with the role and the member in it
C20_Witness ==
    /\ last.op = "delete_team" /\ last.err = ""
    /\ ~Referenced(last.id)
    /\ sqlite_sequence.teams >= last.id
    /\ \A q \in get_all_teams : Len(q) = 1 /\ q[1].id # last.id
    /\ \E t \in teams : (\E r \in roles : r.team_id = t.id)
                            /\ (\E m \in team_members : m.team_id = t.id)


----------------------------------------------------------------------------
(* Names being given and changed: two rows at most of each kind are added, *)
(* each under either of two names, and the first two shifts are renamed     *)

Technician == <<20, 5, 3, 8, 14, 9, 3, 9, 1, 14>>
Early == <<5, 1, 18, 12, 25>>
Late == <<12, 1, 20, 5>>
Dawn == <<4, 1, 23, 14>>

RoleNames == {Pharmacist, Technician}
PersonNames == {Ann, Bob}
DutyNames == {Till, Lab}
ShiftNames == {Early, Late, Dawn}

NextNames ==
    \/ \E name \in TeamNames : sqlite_sequence.teams + 1 \in TeamIds /\ add_team(name)
    \/ \E t \in teams, name \in TeamNames : update_team(t.id, name)
    \/ \E name \in RoleNames : sqlite_sequence.roles < 2 /\ add_role(name, NULL)
    \/ \E r \in roles, name \in RoleNames : update_role(r.id, name, r.team_id)
    \/ \E name \in PersonNames :
           member_seq + 1 \in MemberIds /\ add_team_member(name, NULL, NULL, 1)
    \/ \E m \in team_members, name \in PersonNames :
           update_team_member(m.id, name, m.role_id, m.active, m.team_id, m.shift_id)
    \/ \E name \in DutyNames :
           sqlite_sequence.responsibilities < 2 /\ add_responsibility(name, Red)
    \/ \E r \in responsibilities, name \in DutyNames :
           update_responsibility(r.id, name, r.color)
    \/ \E sh \in {x \in shifts : x.id \in ShiftIds}, name \in ShiftNames :
           update_shift(sh.id, name, sh.start_time, sh.end_time)

SpecNames == Init /\ [][NextNames]_vars

----------------------------------------------------------------------------
(* Properties of SpecNames *)

UniqueNames(table) == \A a, b \in table : a.name = b.name => a = b

\* the row an add call put into the table: one row, under a name no row had
AddedOne(before, after) ==
    \E row \in after \ before :
        /\ after = before \cup {row}
        /\ \A x \in before : x.name # row.name

\* C21: no two rows of teams, of roles, of shifts, of team members or of
\* responsibilities ever share a name; a call that raises the uniqueness
\* error leaves every table as it was; and add_team, add_role,
\* add_team_member and add_responsibility either add one row under a name
\* that no row of the table had, or raise the uniqueness error.
C21_NamesUnique ==
    /\ [](/\ UniqueNames(teams) /\ UniqueNames(roles) /\ UniqueNames(shifts)
          /\ UniqueNames(team_members) /\ UniqueNames(responsibilities))
    /\ [][/\ last'.err = "IntegrityError" =>
                  UNCHANGED <<reference_tables, team_members, member_seq, absences,
                              schedules, weekly_responsibilities>>
          /\ last'.op = "add_team" =>
                  \/ last'.err = "IntegrityError"
                  \/ last'.err = "" /\ AddedOne(teams, teams')
          /\ last'.op = "add_role" =>
                  \/ last'.err = "IntegrityError"
                  \/ last'.err = "" /\ AddedOne(roles, roles')
          /\ last'.op = "add_team_member" =>
                  \/ last'.err = "IntegrityError"
                  \/ last'.err = "" /\ AddedOne(team_members, team_members')
          /\ last'.op = "add_responsibility" =>
                  \/ last'.err = "IntegrityError"
                  \/ last'.err = "" /\ AddedOne(responsibilities, responsibilities')]_vars

\* an add under a name already held was refused while the table held two rows
C21_Witness ==
    /\ last.op = "add_team" /\ last.err = "IntegrityError"
    /\ Cardinality(teams) = 1
    /\ Cardinality(roles) = 2 /\ Cardinality(responsibilities) = 2
    /\ \E x \in shifts : x.name = Dawn

----------------------------------------------------------------------------
(* The forms of src/app.py that add and rename teams and members and add   *)
(* absences: what each button does with the fields as they were filled in. *)
(* A name is the text of its field, the empty text <<>> when left blank; a *)
(* date field holds a Python date.                                         *)

\* st.error(...): the form refuses the input and calls nothing
rejected(form) ==
    /\ last' = Called(form, NoDate, NoDate, NULL, NULL, "st.error", 0)
    /\ UNCHANGED <<reference_tables, team_members, member_seq, absences, schedules,
                   weekly_responsibilities, conn, lock>>

\* if st.button("Add Team"): if team_name: db.add_team(...) else: st.error(...)
add_team_button(team_name) ==
    IF team_name # <<>> THEN add_team(team_name) ELSE rejected("Add Team")

\* save_team of the team's expander: db.update_team with the fields as they are
save_team(team, new_name) == update_team(team.id, new_name)

\* if st.button("Add Team Member"): if member_name: db.add_team_member(...)
add_team_member_button(member_name, selected_shift_id) ==
    IF member_name # <<>> THEN add_team_member(member_name, NULL, NULL, selected_shift_id)
    ELSE rejected("Add Team Member")

\* save_member of the member's expander
save_member(member, new_name) ==
    update_team_member(member.id, new_name, member.role_id, member.active,
                       member.team_id, member.shift_id)

\* if st.button("Add Absence"): if start_date <= end_date: db.add_absence(...)
add_absence_button(selected_member_id, start_date, end_date) ==
    IF start_date <= end_date
        THEN add_absence(selected_member_id, strftime(start_date), strftime(end_date))
        ELSE rejected("Add Absence")

FormNames == {<<>>, Pharmacy}
FormPeople == {<<>>, Ann}
FormDays == {7, 9}                                         \* Mon 3 Jun, Wed 5 Jun

NextForms ==
    \/ \E name \in FormNames : sqlite_sequence.teams + 1 \in TeamIds /\ add_team_button(name)
    \/ \E t \in teams, name \in FormNames \cup {Ward} : save_team(t, name)
    \/ \E t \in teams : delete_team(t.id)
    \/ \E name \in FormPeople :
           member_seq + 1 \in MemberIds /\ add_team_member_button(name, 1)
    \/ \E m \in team_members, name \in FormPeople \cup {Bob} : save_member(m, name)
    \/ \E m \in team_members, s \in FormDays, e \in FormDays :
           absences = EmptyBag /\ add_absence_button(m.id, s, e)
    \/ \E a \in BagToSet(absences), s \in FormDays, e \in FormDays :
           update_absence(a, strftime(s), strftime(e))
    \/ \E a \in BagToSet(absences) : delete_absence(a)

SpecForms == Init /\ [][NextForms]_vars

----------------------------------------------------------------------------
(* Properties of SpecForms *)

\* C22: no stored team or team member has the empty name, and every stored
\* absence has its start date on or before its end date: an empty name and an
\* absence that ends before it starts never reach the store.
C22_ValidatedAtBoundary ==
    /\ \A t \in teams : t.name # <<>>
    /\ \A m \in team_members : m.name # <<>>
    /\ \A a \in BagToSet(absences) : StrLE(a.start_date, a.end_date)

----------------------------------------------------------------------------
(* The application started again and again while shifts are renamed and    *)
(* their times are changed                                                  *)

Dusk == <<4, 21, 19, 11>>
SeededNames == {sh.name : sh \in shifts_data}
EditNames == {Early, Dawn, Dusk}
EditStarts == {<<0, 6, 0, 0>>, <<0, 7, 0, 0>>}             \* 06:00, 07:00

NextSeed ==
    \/ init_db_again
    \/ \E sh \in {x \in shifts : x.name \in EditNames \cup {Late}},
          name \in EditNames, t \in EditStarts :
           update_shift(sh.id, name, t, sh.end_time)

SpecSeed == Init /\ [][NextSeed]_vars

----------------------------------------------------------------------------
(* Properties of SpecSeed *)

\* C23: whenever init_db has just run, exactly one shift is named each of
\* Early, Late, Day and day_2, whatever renames came before; and a run of
\* init_db leaves every shift that exists as it is, times included, and adds
\* a shift only under a seeded name that no shift had.
C23_SeedingIdempotent ==
    /\ [](last.op = "init_db" =>
              \A name \in SeededNames :
                  Cardinality({x \in shifts : x.name = name}) = 1)
    /\ [][last'.op = "init_db" =>
              /\ shifts \subseteq shifts'
              /\ \A x \in shifts' \ shifts :
                     /\ x.name \in SeededNames
                     /\ \A y \in shifts : y.name # x.name /\ y.id # x.id
                     /\ \E sh \in shifts_data :
                            /\ sh.name = x.name
                            /\ sh.start_time = x.start_time
                            /\ sh.end_time = x.end_time]_vars

\* init_db has run again after Early was renamed and after the times of a
\* shift were changed: the renamed shift, the edited times and a new Early
C23_Witness ==
    /\ last.op = "init_db"
    /\ \E x \in shifts : x.id = 1 /\ x.name = Dawn
    /\ \E x \in shifts : x.id > 4 /\ x.name = Early /\ x.start_time = <<0, 6, 0, 0>>
    /\ Cardinality(shifts) > 5

----------------------------------------------------------------------------
(* Connections *)

\* C24: the call that ended last, whether it returned or raised, closed the
\* connection it opened.
C24_ConnectionReleased == last.closed

----------------------------------------------------------------------------
(* Absences being entered and listed while members come and go *)

\* one call of get_absences_for_date_range: last.n is the length of the list
list_absences(start_date, end_date) ==
    \E q \in get_absences_for_date_range(start_date, end_date) :
        /\ last' = Called("get_absences_for_date_range", start_date, end_date,
                          NULL, NULL, "", Len(q))
        /\ UNCHANGED <<reference_tables, team_members, member_seq, absences, schedules,
                       weekly_responsibilities, conn, lock>>

ListedAbsences == {<<strftime(4), strftime(7)>>,           \* Fri 31 May..Mon 3 Jun
                   <<strftime(8), strftime(8)>>,           \* Tue 4 Jun
                   <<strftime(9), strftime(10)>>}          \* Wed 5 Jun..Thu 6 Jun
ListedRanges == {<<strftime(7), strftime(9)>>,             \* Mon 3 Jun..Wed 5 Jun
                 <<strftime(8), strftime(8)>>}             \* Tue 4 Jun

NextAbsences ==
    \/ member_seq + 1 \in MemberIds
           /\ add_team_member(MemberNames[member_seq + 1], NULL, NULL, 1)
    \/ \E m \in team_members : delete_team_member(m.id)
    \/ \E m \in team_members, r \in ListedAbsences :
           BagCardinality(absences) < MaxOverlap /\ add_absence(m.id, r[1], r[2])
    \/ \E a \in BagToSet(absences) : delete_absence(a)
    \/ \E r \in ListedRanges : list_absences(r[1], r[2])

SpecAbsences == Init /\ [][NextAbsences]_vars

----------------------------------------------------------------------------
(* Properties of SpecAbsences *)

\* the number of times the row stands in the list
TimesIn(a, q) == Cardinality({i \in DOMAIN q : q[i] = a})

\* C25: for every range, every list get_absences_for_date_range may return
\* holds exactly the stored absences with start_date <= end and end_date >=
\* start, each as often as it is stored, in ascending order of start date.
C25_AbsencesOfRange ==
    \A r \in ListedRanges :
        \A q \in get_absences_for_date_range(r[1], r[2]) :
            /\ \A a \in BagToSet(absences) :
                   TimesIn(a, q) = IF StrLE(a.start_date, r[2]) /\ StrLE(r[1], a.end_date)
                                       THEN CopiesIn(a, absences) ELSE 0
            /\ \A i \in DOMAIN q : BagIn(q[i], absences)
            /\ \A i, j \in DOMAIN q : i < j => StrLE(q[i].start_date, q[j].start_date)

----------------------------------------------------------------------------
(* Properties of SpecWeek: what a population leaves alone *)

\* C27: a population only adds schedule rows: every row stored before it is
\* stored after it, as it was, and the teams, roles, shifts,
\* responsibilities, team members, weekly responsibilities and absences are
\* unchanged.
C27_PopulateOnlyAdds ==
    [][last'.op = Populate =>
          /\ \A row \in BagToSet(schedules) :
                 CopiesIn(row, schedules') = CopiesIn(row, schedules)
          /\ UNCHANGED <<teams, roles, shifts, responsibilities, sqlite_sequence,
                         team_members, member_seq, weekly_responsibilities, absences>>]_vars

\* a population created rows for a member who was already scheduled on a day
\* of the range under a shift other than the member's default shift
C27_Witness ==
    /\ last.op = Populate /\ last.n > 0
    /\ \E m \in team_members, row \in BagToSet(schedules) :
           /\ m.active /\ m.shift_id # NULL
           /\ row.member_id = m.id /\ row.shift_id # m.shift_id
           /\ InRange(row.date, last.d1, last.d2)
           /\ BagIn(Row(row.date, m.shift_id, m.id), schedules)

----------------------------------------------------------------------------
(* "Populate Week with Default Shifts" of show_schedule_page (src/app.py): *)
(* the page loads the active members and the absences of the selected      *)
(* week, and the button adds each member's default shift day by day        *)

\* SELECT tm.* ... FROM team_members tm ... WHERE tm.active = 1 ORDER BY
\* tm.name: the lists get_all_team_members() may return
get_all_team_members == by_name({tm \in team_members : tm.active})

\* the loops of the button with the absence check left out
RECURSIVE week_attempts_of_absent_members(_, _, _)
week_attempts_of_absent_members(active_members, week_dates, amap) ==
    IF active_members = <<>> THEN <<>>
    ELSE LET member == Head(active_members)
         IN  [i \in 1..Len(week_dates) |->
                  Row(strftime(week_dates[i]), member.shift_id, member.id)]
                 \o week_attempts_of_absent_members(Tail(active_members), week_dates, amap)

\* for member in active_members: for day_date in week_dates: the rows whose
\* db.add_schedule is called, in the order of the calls
RECURSIVE week_attempts(_, _, _)
week_attempts(active_members, week_dates, amap) ==
    IF active_members = <<>> THEN <<>>
    ELSE LET member == Head(active_members)
             days == SelectSeq(week_dates, LAMBDA d : ~absent(amap, member.id, d))
         IN  [i \in 1..Len(days) |-> Row(strftime(days[i]), member.shift_id, member.id)]
                 \o week_attempts(Tail(active_members), week_dates, amap)

\* the db.add_schedule calls one after the other, each committed by itself:
\* a call that returns is counted in success_count, one that raises
\* ValueError in already_scheduled
RECURSIVE add_schedules(_, _, _, _)
add_schedules(todo, table, success_count, already_scheduled) ==
    IF todo = <<>>
        THEN [table |-> table, success_count |-> success_count,
              already_scheduled |-> already_scheduled]
    ELSE LET res == insert_schedule(table, Head(todo))
         IN  IF res.ok
                 THEN add_schedules(Tail(todo), res.table, success_count + 1,
                                    already_scheduled)
                 ELSE add_schedules(Tail(todo), res.table, success_count,
                                    already_scheduled + 1)

\* one press of the button on the page rendered for selected_week_start:
\* last.d1 and last.d2 are the first and the last of the week dates, last.n
\* is success_count
populate_week_button(selected_week_start) ==
    LET week_dates == get_week_dates(selected_week_start)
        week_start_str == strftime(week_dates[1])
        week_end_str == strftime(week_dates[5])
    IN  \E members \in get_all_team_members,
           week_absences \in get_absences_for_date_range(week_start_str, week_end_str) :
            LET amap == absence_map({week_absences[i] : i \in DOMAIN week_absences})
                active_members == SelectSeq(members,
                                            LAMBDA m : m.active /\ m.shift_id # NULL)
                out == add_schedules(week_attempts(active_members, week_dates, amap),
                                     schedules, 0, 0)
            IN  /\ schedules' = out.table
                /\ last' = Called("Populate Week", week_start_str, week_end_str, NULL, NULL,
                                  IF active_members = <<>> THEN "st.warning" ELSE "",
                                  out.success_count)
                /\ UNCHANGED <<reference_tables, team_members, member_seq, absences,
                               weekly_responsibilities, conn, lock>>

SelectedDays == {9, 12}                                    \* Wed 5 Jun, Sat 8 Jun
OneWeek == <<strftime(7), strftime(11)>>                   \* Mon 3 Jun..Fri 7 Jun

NextLoop ==
    \/ \E s \in {1, NULL} :
           member_seq + 1 \in MemberIds
               /\ add_team_member(MemberNames[member_seq + 1], NULL, NULL, s)
    \/ \E m \in team_members, e \in MemberSettings :
           update_team_member(m.id, m.name, m.role_id, e[1], m.team_id, e[2])
    \/ \E m \in team_members : delete_team_member(m.id)
    \/ \E m \in team_members, r \in WeekAbsRanges :
           BagCardinality(absences) < MaxAbsences /\ add_absence(m.id, r[1], r[2])
    \/ \E a \in BagToSet(absences) : delete_absence(a)
    \/ auto_populate_schedules_for_date_range(OneWeek[1], OneWeek[2])
    \/ \E d \in SelectedDays : populate_week_button(d)

SpecLoop == Init /\ [][NextLoop]_vars

----------------------------------------------------------------------------
(* Properties of SpecLoop *)

\* what auto_populate_schedules_for_date_range makes of the state for the range
Populated(start_date, end_date) ==
    LET mws == members_with_shifts(team_members)
        amap == absence_map(absences_overlapping(absences, start_date, end_date))
    IN  insert_all(attempts(strptime(start_date), strptime(end_date), mws, amap),
                   schedules, 0)

\* C28: a press of "Populate Week with Default Shifts" leaves the schedules
\* that auto_populate_schedules_for_date_range leaves when called from the
\* same state for the Monday to Friday of the selected week, and its success
\* count is the count that call returns.
C28_LoopMatchesStore ==
    [][last'.op = "Populate Week" =>
          /\ strptime(last'.d1) % 7 = 0
          /\ strptime(last'.d2) = strptime(last'.d1) + 4
          /\ schedules' = Populated(last'.d1, last'.d2).table
          /\ last'.n = Populated(last'.d1, last'.d2).schedules_created]_vars

\* the button added shifts to a week in which a member was absent for a day
\* and a shift was stored already
C28_Witness ==
    /\ last.op = "Populate Week" /\ last.n > 0
    /\ last.n < BagCardinality(schedules)
    /\ \E m \in team_members :
           /\ m.active /\ m.shift_id # NULL
           /\ \E d \in 7..11 : Covered(m.id, strftime(d))

----------------------------------------------------------------------------
(* Rows that reference members and teams being stored while members and    *)
(* teams are deleted; the pages offer the stored members and teams only     *)

NextIntegrity ==
    \/ sqlite_sequence.teams = 0 /\ add_team(Pharmacy)
    \/ \E t \in teams : delete_team(t.id)
    \/ \E t \in teams \cup {[id |-> NULL]} :
           sqlite_sequence.roles = 0 /\ add_role(Pharmacist, t.id)
    \/ \E t \in teams \cup {[id |-> NULL]} :
           member_seq + 1 \in MemberIds
               /\ add_team_member(MemberNames[member_seq + 1], NULL, t.id, 1)
    \/ \E m \in team_members : delete_team_member(m.id)
    \/ \E m \in team_members, sh \in {x \in shifts : x.id \in ShiftIds} :
           schedules = EmptyBag /\ add_schedule(strftime(7), sh.id, m.id)
    \/ \E row \in BagToSet(schedules) : delete_schedule(row)
    \/ \E m \in team_members :
           absences = EmptyBag /\ add_absence(m.id, strftime(7), strftime(8))
    \/ \E a \in BagToSet(absences) : delete_absence(a)
    \/ \E m \in team_members : set_weekly_responsibility(strftime(7), m.id, NULL)

SpecIntegrity == Init /\ [][NextIntegrity]_vars

----------------------------------------------------------------------------
(* Properties of SpecIntegrity *)

MemberStored(member_id) == \E m \in team_members : m.id = member_id

TeamStored(team_id) == \E t \in teams : t.id = team_id

\* C29: every schedule, weekly responsibility and absence row references a
\* stored team member, every schedule row a stored shift, and every role and
\* team member with a team references a stored team.
C29_ReferentialIntegrity ==
    /\ \A row \in BagToSet(schedules) :
           /\ MemberStored(row.member_id)
           /\ \E sh \in shifts : sh.id = row.shift_id
    /\ \A w \in BagToSet(weekly_responsibilities) : MemberStored(w.member_id)
    /\ \A a \in BagToSet(absences) : MemberStored(a.member_id)
    /\ \A r \in roles : r.team_id # NULL => TeamStored(r.team_id)
    /\ \A m \in team_members : m.team_id # NULL => TeamStored(m.team_id)

----------------------------------------------------------------------------
(* "Apply to All" of the By Person view of show_schedule_page (src/app.py): *)
(* the shifts of a person in the listed range, each set to the chosen shift *)

\* sorted(member_data['shifts'], key=lambda x: x['date']): the shifts by
\* date, those of one date in the order the list has them in
RECURSIVE sorted_key_date(_)
sorted_key_date(q) ==
    IF q = <<>> THEN <<>>
    ELSE LET first == CHOOSE i \in DOMAIN q :
                          \A k \in DOMAIN q :
                              /\ StrLE(q[i].date, q[k].date)
                              /\ q[k].date = q[i].date => i <= k
         IN  <<q[first]>>
                 \o sorted_key_date(SubSeq(q, 1, first - 1) \o SubSeq(q, first + 1, Len(q)))

\* the loop with each call in a try block of its own: a call that raises is
\* passed over and the loop goes on
RECURSIVE update_all_that_can_be(_, _, _, _)
update_all_that_can_be(shifts_of, table, bulk_shift_id, updated) ==
    IF shifts_of = <<>> THEN [table |-> table, err |-> "", updated |-> updated]
    ELSE LET schedule == Head(shifts_of)
             res == execute_update(table,
                                   Row(schedule.date, schedule.shift_id, schedule.member_id),
                                   bulk_shift_id)
         IN  update_all_that_can_be(Tail(shifts_of), res.table, bulk_shift_id,
                                    IF res.ok THEN updated + 1 ELSE updated)

\* for schedule in shifts: db.update_schedule_shift(schedule['id'],
\* bulk_shift_id), each call committing by itself; the first call that raises
\* ends the loop, its exception leaving the handler
RECURSIVE update_all(_, _, _, _)
update_all(shifts_of, table, bulk_shift_id, updated) ==
    IF shifts_of = <<>> THEN [table |-> table, err |-> "", updated |-> updated]
    ELSE LET schedule == Head(shifts_of)
             res == execute_update(table,
                                   Row(schedule.date, schedule.shift_id, schedule.member_id),
                                   bulk_shift_id)
         IN  IF res.ok
                 THEN update_all(Tail(shifts_of), res.table, bulk_shift_id, updated + 1)
                 ELSE [table |-> table, err |-> "IntegrityError", updated |-> updated]

\* one press of the button in the expander of the member, on the page that
\* lists start_date..end_date: last.n is the number of calls that returned
apply_to_all(start_date, end_date, member_id, bulk_shift_id) ==
    \E listed \in get_schedules_for_date_range(start_date, end_date) :
        LET shifts_of == sorted_key_date(SelectSeq(listed,
                                                   LAMBDA v : v.member_id = member_id))
            out == update_all(shifts_of, schedules, bulk_shift_id, 0)
        IN  /\ shifts_of # <<>>
            /\ schedules' = out.table
            /\ last' = [(IF out.err = ""
                             THEN Called("Apply to All", start_date, end_date,
                                         bulk_shift_id, member_id, "", 0)
                             ELSE Uncaught("Apply to All", start_date, end_date,
                                           bulk_shift_id, member_id, out.err))
                           EXCEPT !.n = out.updated]
            /\ UNCHANGED <<reference_tables, team_members, member_seq, absences,
                           weekly_responsibilities, conn, lock>>

ApplyDays == {7, 8, 9}                                     \* Mon 3, Tue 4, Wed 5 Jun
ApplyRanges == {<<strftime(7), strftime(9)>>,              \* Mon 3 Jun..Wed 5 Jun
                <<strftime(8), strftime(9)>>}              \* Tue 4 Jun..Wed 5 Jun

NextApply ==
    \/ \E d \in ApplyDays, s \in ShiftIds : add_schedule(strftime(d), s, 1)
    \/ \E row \in BagToSet(schedules) : delete_schedule(row)
    \/ \E row \in BagToSet(schedules), s \in ShiftIds : update_schedule_shift(row, s)
    \/ \E r \in ApplyRanges, s \in ShiftIds : apply_to_all(r[1], r[2], 1, s)

SpecApply == InitView /\ [][NextApply]_vars

----------------------------------------------------------------------------
(* Properties of SpecApply *)

\* the place of a row in the list of a person: by date, then by the start
\* time of its shift
ListedBefore(a, b) ==
    LET start(row) == (CHOOSE sh \in shifts : sh.id = row.shift_id).start_time
    IN  \/ a.date # b.date /\ StrLE(a.date, b.date)
        \/ a.date = b.date /\ start(a) # start(b) /\ TextLE(start(a), start(b))

\* the table with the shift of each of the rows set to s
Reassigned(table, rows, s) ==
    [row \in BagToSet(table) \ rows |-> table[row]]
        (+) SetToBag({Row(row.date, s, row.member_id) : row \in rows})

\* C30: update_schedule_shift either raises the uniqueness error and leaves
\* the schedules as they were, or sets the shift of one row and leaves no
\* triple stored twice.  "Apply to All" sets the shift of every listed row of
\* the member when it ends without an error; when it ends with the
\* uniqueness error, the rows it has set come before all the others in the
\* list and stay set, the first of the others is the one whose new triple is
\* stored already, and the others are as they were.
C30_UpdateConflict ==
    /\ [][last'.op = "update_schedule_shift" =>
              \/ last'.err = "IntegrityError" /\ schedules' = schedules
              \/ /\ last'.err = ""
                 /\ \A row \in BagToSet(schedules') : CopiesIn(row, schedules') = 1
                 /\ \E row \in BagToSet(schedules), s \in ShiftIds :
                        schedules' = Reassigned(schedules, {row}, s)]_vars
    /\ [][last'.op = "Apply to All" =>
              LET mine == {row \in BagToSet(schedules) :
                              /\ row.member_id = last'.member
                              /\ InRange(row.date, last'.d1, last'.d2)}
                  s == last'.id
              IN  \/ /\ last'.err = ""
                     /\ last'.n = Cardinality(mine)
                     /\ schedules' = Reassigned(schedules, mine, s)
                     /\ \A row \in BagToSet(schedules') : CopiesIn(row, schedules') = 1
                  \/ /\ last'.err = "IntegrityError"
                     /\ \E done \in SUBSET mine :
                            /\ Cardinality(done) = last'.n
                            /\ \A a \in done, b \in mine \ done : ListedBefore(a, b)
                            /\ schedules' = Reassigned(schedules, done, s)
                            /\ \E f \in mine \ done :
                                   /\ \A b \in mine \ done : b = f \/ ListedBefore(f, b)
                                   /\ f.shift_id # s
                                   /\ BagIn(Row(f.date, s, f.member_id), schedules')]_vars

\* "Apply to All" ended with the uniqueness error after two of its calls had
\* returned, and a later shift of the member is as it was
C30_Witness ==
    /\ last.op = "Apply to All" /\ last.err = "IntegrityError"
    /\ last.n = 2
    /\ BagIn(Row(strftime(7), last.id, 1), schedules)
    /\ \E row \in BagToSet(schedules) :
           /\ row.date = strftime(9)
           /\ row.shift_id # last.id
           /\ ~BagIn(Row(row.date, last.id, 1), schedules)

====
